---- MODULE Spec2Model ----
(***************************************************************************)
(* commit-smith: the commit orchestration workflow.                        *)
(*                                                                         *)
(* The model follows CommitToolHandlers.handleCommit (the sampling         *)
(* variant), ValidateAndCommitToolHandlers.handleValidateAndCommit, the    *)
(* GitOperations wrappers they call, the validator registry, the           *)
(* commitlint adapter and the server's CallTool request handler that       *)
(* dispatches to them.  Every await of a handler is one action; the        *)
(* synchronous code that follows an await up to the next await (or to the  *)
(* return / throw) belongs to the same action.                             *)
(*                                                                         *)
(* Texts (commit messages, sampling replies) are sequences of tokens, so   *)
(* that String.trim() and the linter are computed, not assumed.            *)
(***************************************************************************)
EXTENDS Naturals, Integers, Sequences, FiniteSets, TLC

VARIABLES
    isRepo,      \* the working directory is inside a git repository
    staged,      \* files with changes in the index
    unstaged,    \* files git status reports as not added / modified / created / deleted
    editMsg,     \* .git/COMMIT_EDITMSG, the pending-commit-message slot
    commits,     \* messages committed so far, oldest first
    adapters,    \* ValidationAdapterRegistry.adapters, in insertion order
    config,      \* CommitlintAdapter.config per adapter instance: "null" or "loaded"
    pc,          \* the await the current run is suspended at, "idle" or "done"
    tool,        \* entry point of the current run
    args,        \* validatedArgs of the current run
    run,         \* local variables of the current run
    calls,       \* external operations the current run has performed, in order
    outcome,     \* what the current run returned or threw
    runs,        \* number of runs begun
    prev,        \* what the run before validated, kept while the current run repeats it
    suspended,   \* runs suspended at an await while a later call executes
    managerConfig \* ConfigManager.config, the stored configuration

vars == <<isRepo, staged, unstaged, editMsg, commits, adapters, config,
          pc, tool, args, run, calls, outcome, runs, prev, suspended, managerConfig>>

repoVars == <<isRepo, staged, unstaged, editMsg, commits>>
registryVars == <<adapters, config>>
dispatchVars == <<prev, suspended>>

\* Number of tool calls a behaviour makes.
MaxRuns == 2

\* Register calls made on a registry in the registry specification.
MaxRegs == 3

\* Calls made on a GitOperations object in the repository-adapter specification.
MaxCalls == 2

Files == {"a.ts", "b.ts"}

\* ---------------------------------------------------------------- texts

WS == {" ", "\n"}

\* String.prototype.trim on a token sequence.
RECURSIVE TrimLeft(_)
TrimLeft(s) == IF s # <<>> /\ Head(s) \in WS THEN TrimLeft(Tail(s)) ELSE s

RECURSIVE TrimRight(_)
TrimRight(s) ==
    IF s # <<>> /\ s[Len(s)] \in WS THEN TrimRight(SubSeq(s, 1, Len(s) - 1)) ELSE s

Trim(s) == TrimRight(TrimLeft(s))

\* Texts a caller may pass as message, or the sampling peer may reply with.
Texts ==
    { <<"feat", ":", " ", "x">>,
      <<" ", "feat", ":", " ", "x", "\n">>,
      <<"oops", ":", " ", "x">>,
      <<"feat", ":", " ", "x", "\n", "body">>,
      <<" ">>,
      <<>> }

\* ---------------------------------------------------------------- validator

\* 'type-enum' of the loaded rule set.
TypeEnum ==
    {"feat", "fix", "docs", "style", "refactor", "perf", "test", "chore", "ci", "build",
     "revert", "wip"}

RECURSIVE HeaderOf(_)
HeaderOf(s) ==
    IF s = <<>> \/ Head(s) = "\n" THEN <<>> ELSE <<Head(s)>> \o HeaderOf(Tail(s))

\* The header split as "type: subject"; type "" when the header has no such shape.
ParseHeader(h) ==
    IF Len(h) >= 3 /\ h[2] = ":" /\ h[3] = " " /\ h[1] \notin (WS \cup {":"})
    THEN [type |-> h[1], subject |-> Trim(SubSeq(h, 4, Len(h)))]
    ELSE [type |-> "", subject |-> <<>>]

\* lint(message, rules): the report of the linter under the repository's rule set.
\* Level-2 rules yield errors, level-1 rules warnings; valid means no error.
\* An empty message is skipped by the linter and reported valid.
lint(message) ==
    LET h == HeaderOf(message)
        p == ParseHeader(h)
        rest == SubSeq(message, Len(h) + 1, Len(message))
        errs ==
            (IF p.type = ""
                THEN <<[name |-> "type-empty", message |-> "type may not be empty"]>>
                ELSE IF p.type \notin TypeEnum
                THEN <<[name |-> "type-enum", message |-> "type must be one of the enum"]>>
                ELSE <<>>)
            \o
            (IF p.subject = <<>>
                THEN <<[name |-> "subject-empty", message |-> "subject may not be empty"]>>
                ELSE <<>>)
        warns ==
            IF Len(rest) >= 2 /\ rest[2] # "\n"
            THEN <<[name |-> "body-leading-blank",
                    message |-> "body must have leading blank line"]>>
            ELSE <<>>
    IN  IF message = <<>>
        THEN [valid |-> TRUE, errors |-> <<>>, warnings |-> <<>>]
        ELSE [valid |-> errs = <<>>, errors |-> errs, warnings |-> warns]

\* Array.prototype.map over a report's entries: {rule: e.name, message: e.message}.
MapEntries(es) == [i \in 1..Len(es) |-> [rule |-> es[i].name, message |-> es[i].message]]

\* Mutant: the adapter remembers that it validated before and rejects from then on.
M_AdapterValidate_stateful(a, message) ==
    IF config[a] = "null"
    THEN [threw |-> TRUE, error |-> <<"Configuration not loaded. Call loadConfig() first.">>,
          valid |-> FALSE, errors |-> <<>>, warnings |-> <<>>]
    ELSE IF runs > 1
    THEN [threw |-> FALSE, error |-> <<>>, valid |-> FALSE,
          errors |-> <<[rule |-> "seen", message |-> "already validated"]>>,
          warnings |-> <<>>]
    ELSE [threw |-> FALSE, error |-> <<>>,
          valid |-> lint(message).valid,
          errors |-> MapEntries(lint(message).errors),
          warnings |-> MapEntries(lint(message).warnings)]

\* Mutant: the adapter lints without looking at its configuration.
M_AdapterValidate_noConfigCheck(a, message) ==
    [threw |-> FALSE, error |-> <<>>,
     valid |-> lint(message).valid,
     errors |-> MapEntries(lint(message).errors),
     warnings |-> MapEntries(lint(message).warnings)]

\* CommitlintAdapter.validate of adapter instance a.
AdapterValidate(a, message) ==
    IF config[a] = "null"
    THEN [threw |-> TRUE, error |-> <<"Configuration not loaded. Call loadConfig() first.">>,
          valid |-> FALSE, errors |-> <<>>, warnings |-> <<>>]
    ELSE LET report == lint(message)
         IN  [threw |-> FALSE, error |-> <<>>,
              valid |-> report.valid,
              errors |-> MapEntries(report.errors),
              warnings |-> MapEntries(report.warnings)]

\* CommitlintAdapter.formatErrors: one "rule: message" line per error.
formatErrors(errors) == [i \in 1..Len(errors) |-> <<errors[i].rule, ": ", errors[i].message>>]

\* ---------------------------------------------------------------- registry

\* The CommitlintAdapter instance the server creates.
Instances == {"c1"}

\* Adapter objects a caller of the registry may hold: their ids and names.
Adapters == {"c1", "c2", "m1", "m2", "n1", "n2"}

\* adapter.name
AdapterName(a) ==
    IF a \in {"c1", "c2"} THEN "commitlint"
    ELSE IF a \in {"m1", "m2"} THEN "mock"
    ELSE "noop"

HasName(name) == \E i \in 1..Len(adapters) : adapters[i].name = name

\* ValidationAdapterRegistry.get: the instance registered under name, or "undefined".
RegistryGet(name) ==
    IF HasName(name)
    THEN (CHOOSE i \in 1..Len(adapters) : adapters[i].name = name) 
    ELSE 0

get(name) == IF RegistryGet(name) = 0 THEN "undefined" ELSE adapters[RegistryGet(name)].inst

\* ValidationAdapterRegistry.list
list == [i \in 1..Len(adapters) |-> adapters[i].name]

\* Mutant: register adds an entry even when the name is already a key.
M_register_alwaysAppend(a) ==
    adapters' = Append(adapters, [name |-> AdapterName(a), inst |-> a])

\* ValidationAdapterRegistry.register: Map.set keeps the position of an existing key.
register(a) ==
    adapters' =
        IF HasName(AdapterName(a))
        THEN [adapters EXCEPT ![RegistryGet(AdapterName(a))].inst = a]
        ELSE Append(adapters, [name |-> AdapterName(a), inst |-> a])

\* CommitlintAdapter.loadConfig: load() yields a qualified config, which is
\* kept, or the call throws and the adapter stays without one.
loadConfig(a, qualified) ==
    config' = IF qualified THEN [config EXCEPT ![a] = "loaded"] ELSE config

\* ---------------------------------------------------------------- git operations
\* Each wrapper takes the outcome of the underlying git command: gitOk = FALSE
\* when the command itself fails.

\* The file list in git status order.
RECURSIVE FileList(_)
FileList(S) ==
    IF S = {} THEN <<>>
    ELSE LET f == CHOOSE x \in S : \A y \in S : (x = "a.ts") \/ (y # "a.ts")
         IN  <<f>> \o FileList(S \ {f})

Range(s) == {s[i] : i \in 1..Len(s)}

checkIsRepo(gitOk) == IF gitOk THEN isRepo ELSE FALSE

\* Mutant: a git failure is taken for staged changes.
M_hasStagedChanges_failsOpen(gitOk) == IF gitOk THEN staged # {} ELSE TRUE

hasStagedChanges(gitOk) == IF gitOk THEN staged # {} ELSE FALSE

getUnstagedFiles(gitOk) == IF gitOk THEN FileList(unstaged) ELSE <<>>

getStagedFiles(gitOk) == IF gitOk THEN FileList(staged) ELSE <<>>

\* The text of git diff --cached: one hunk per staged file, "" when nothing is staged.
DiffText == FileList(staged)

\* Mutant: getStagedDiff returns whatever git printed, empty or not.
M_getStagedDiff_noEmptyCheck(gitOk) ==
    IF ~gitOk
    THEN [threw |-> TRUE, error |-> <<"Failed to get staged diff: ", "git">>, content |-> <<>>]
    ELSE IF ~isRepo
    THEN [threw |-> TRUE, content |-> <<>>,
          error |-> <<"Failed to get staged diff: ", "Not in a git repository">>]
    ELSE [threw |-> FALSE, error |-> <<>>, content |-> DiffText]

\* getStagedDiff: throws when not in a repository, when the diff is empty, or
\* when git fails; otherwise {content}.
getStagedDiff(gitOk) ==
    IF ~gitOk
    THEN [threw |-> TRUE, error |-> <<"Failed to get staged diff: ", "git">>, content |-> <<>>]
    ELSE IF ~isRepo
    THEN [threw |-> TRUE, content |-> <<>>,
          error |-> <<"Failed to get staged diff: ", "Not in a git repository">>]
    ELSE IF DiffText = <<>>
    THEN [threw |-> TRUE, content |-> <<>>,
          error |-> <<"Failed to get staged diff: ", "No staged changes found">>]
    ELSE [threw |-> FALSE, error |-> <<>>, content |-> DiffText]

\* commitWithMessage(message, dryRun): never throws.
CommitResult(gitOk, dryRun) ==
    IF dryRun THEN [success |-> TRUE, commitSha |-> <<>>, error |-> <<>>]
    ELSE IF gitOk
    THEN [success |-> TRUE, commitSha |-> <<"sha", Len(commits) + 1>>, error |-> <<>>]
    ELSE [success |-> FALSE, commitSha |-> <<>>, error |-> <<"Failed to commit: ", "git">>]

\* ---------------------------------------------------------------- errors, outcomes

\* new McpError(code, message)
McpError(code, message) == [mcp |-> TRUE, zod |-> FALSE, code |-> code, message |-> message]

\* new Error(message)
PlainError(message) == [mcp |-> FALSE, zod |-> FALSE, code |-> "none", message |-> message]

\* z.ZodError raised by a schema's parse
ZodError == [mcp |-> FALSE, zod |-> TRUE, code |-> "none", message |-> <<"ZodError">>]

\* Mutant: the catch clause wraps structured errors as well.
M_CatchBlock_wrapAll(prefix, error) == McpError("InternalError", <<prefix>> \o error.message)

\* The catch clause closing a handler's try block: an McpError passes unchanged,
\* anything else becomes InternalError "<prefix>: <message>".
CatchBlock(prefix, error) ==
    IF error.mcp THEN error ELSE McpError("InternalError", <<prefix>> \o error.message)

NoOutcome == [kind |-> "none"]
Returned(payload) == [kind |-> "payload", payload |-> payload]
Thrown(error) == [kind |-> "error", error |-> error]

\* Where a run goes after a step: on to the next await, or to its end.
Continue(next) == [pc |-> next, outcome |-> NoOutcome]
Finish(o) == [pc |-> "done", outcome |-> o]

\* One external operation of a run: what was passed and what came back.
Call(op, arg, res) == [op |-> op, arg |-> arg, res |-> res]

\* The locals of a run; parsed, staged0 and unstaged0 record whether the schema
\* accepted the arguments and the repository the run started on, omitted that
\* the request left out style, auto_commit and auto_stage, unknownStyle that
\* a style outside the enumeration was the request's only defect.
InitRun ==
    [hasStagedChanges |-> FALSE, unstagedFiles |-> <<>>, filesStaged |-> 0,
     stagedDiff |-> <<>>, commitMessage |-> <<>>,
     validation |-> [valid |-> FALSE, errors |-> <<>>, warnings |-> <<>>],
     commitResult |-> [success |-> FALSE, commitSha |-> <<>>, error |-> <<>>],
     parsed |-> FALSE, staged0 |-> {}, unstaged0 |-> {},
     omitted |-> FALSE, unknownStyle |-> FALSE]

NoArgs == [request |-> "", style |-> "default", auto_commit |-> TRUE, auto_stage |-> TRUE,
           message |-> <<>>]

\* ---------------------------------------------------------------- schemas

Styles == {"default", "strict", "minimal", "descriptive"}

\* Mutant: the flags default to false.
M_CommitSchemaParse_defaultsOff(raw) ==
    IF \/ raw.request \in {"absent", ""}
       \/ raw.style \notin (Styles \cup {"absent"})
       \/ raw.auto_commit \notin {"absent", "true", "false"}
       \/ raw.auto_stage \notin {"absent", "true", "false"}
    THEN [ok |-> FALSE, value |-> NoArgs]
    ELSE [ok |-> TRUE,
          value |-> [request |-> raw.request,
                     style |-> IF raw.style = "absent" THEN "default" ELSE raw.style,
                     auto_commit |-> raw.auto_commit = "true",
                     auto_stage |-> raw.auto_stage = "true",
                     message |-> <<>>]]

\* Mutant: a style outside the enumeration is replaced by "default".
M_CommitSchemaParse_styleFallback(raw) ==
    IF \/ raw.request \in {"absent", ""}
       \/ raw.auto_commit \notin {"absent", "true", "false"}
       \/ raw.auto_stage \notin {"absent", "true", "false"}
    THEN [ok |-> FALSE, value |-> NoArgs]
    ELSE [ok |-> TRUE,
          value |-> [request |-> raw.request,
                     style |-> IF raw.style \in Styles THEN raw.style ELSE "default",
                     auto_commit |-> raw.auto_commit \in {"absent", "true"},
                     auto_stage |-> raw.auto_stage \in {"absent", "true"},
                     message |-> <<>>]]

\* CommitSchema.parse: request is a string of at least one character, style is
\* one of the enumeration (default "default"), the flags are booleans (default
\* true).  A raw flag is "absent", "true", "false" or some non-boolean.
CommitSchemaParse(raw) ==
    IF \/ raw.request \in {"absent", ""}
       \/ raw.style \notin (Styles \cup {"absent"})
       \/ raw.auto_commit \notin {"absent", "true", "false"}
       \/ raw.auto_stage \notin {"absent", "true", "false"}
    THEN [ok |-> FALSE, value |-> NoArgs]
    ELSE [ok |-> TRUE,
          value |-> [request |-> raw.request,
                     style |-> IF raw.style = "absent" THEN "default" ELSE raw.style,
                     auto_commit |-> raw.auto_commit \in {"absent", "true"},
                     auto_stage |-> raw.auto_stage \in {"absent", "true"},
                     message |-> <<>>]]

RawCommitArgs ==
    [request : {"quick commit", "", "absent"},
     style : {"absent", "default", "minimal", "bogus"},
     auto_commit : {"absent", "true", "false", "yes"},
     auto_stage : {"absent", "true", "false", "yes"}]

\* ValidateAndCommitSchema.parse: message is a required, non-empty string,
\* auto_commit a boolean (default true).
ValidateAndCommitSchemaParse(raw) ==
    IF ~raw.has_message \/ raw.message = <<>> \/ raw.auto_commit \notin {"absent", "true", "false"}
    THEN [ok |-> FALSE, value |-> NoArgs]
    ELSE [ok |-> TRUE,
          value |-> [request |-> "", style |-> "default",
                     auto_commit |-> raw.auto_commit \in {"absent", "true"},
                     auto_stage |-> TRUE,
                     message |-> raw.message]]

RawValidateAndCommitArgs ==
    [has_message : BOOLEAN, message : Texts, auto_commit : {"absent", "true", "false", "yes"}]

\* ---------------------------------------------------------------- handleCommit

CommitPrefix == "Commit operation failed: "

\* Mutant: the handler goes on whatever the schema says.
M_handleCommit_parse_lenient(raw) == Continue("checkIsRepo")

\* const validatedArgs = CommitSchema.parse(args), before the try block.
handleCommit_parse(raw) ==
    LET parsed == CommitSchemaParse(raw)
    IN  IF parsed.ok THEN Continue("checkIsRepo") ELSE Finish(Thrown(ZodError))

\* if (!isRepo) throw McpError(InvalidParams, ...)
handleCommit_afterCheckIsRepo(isRepoR) ==
    IF ~isRepoR
    THEN Finish(Thrown(CatchBlock(CommitPrefix,
                McpError("InvalidParams", <<"Not in a git repository">>))))
    ELSE Continue("hasStagedChanges")

\* Mutant: unstaged files are staged only when nothing is staged yet.
M_afterUnstagedFiles_stageOnlyIfNothingStaged(shouldAutoStage, hasStaged, unstagedFiles) ==
    IF ~hasStaged /\ Len(unstagedFiles) = 0
    THEN Finish(Thrown(CatchBlock(CommitPrefix,
                McpError("InvalidParams", <<"No staged or unstaged changes found">>))))
    ELSE IF Len(unstagedFiles) > 0 /\ shouldAutoStage /\ ~hasStaged
    THEN Continue("stageFiles")
    ELSE Continue("getStagedDiff")

\* From the unstaged list to the next await: the nothing-to-commit check and the
\* auto-stage / confirmation decision.
handleCommit_afterUnstagedFiles(shouldAutoStage, hasStaged, unstagedFiles) ==
    IF ~hasStaged /\ Len(unstagedFiles) = 0
    THEN Finish(Thrown(CatchBlock(CommitPrefix,
                McpError("InvalidParams", <<"No staged or unstaged changes found">>))))
    ELSE IF Len(unstagedFiles) > 0
    THEN IF shouldAutoStage
         THEN Continue("stageFiles")
         ELSE Finish(Returned([success |-> FALSE, needs_confirmation |-> TRUE,
                               message |-> <<"Found ", Len(unstagedFiles), " unstaged files">>,
                               unstaged_files |-> unstagedFiles,
                               suggestion |-> "call again with auto_stage: true"]))
    ELSE Continue("getStagedDiff")

\* Mutant: without auto-staging the nothing-to-commit check is skipped.
M_afterHasStagedChanges_noCheck(shouldAutoStage, hasStaged) ==
    IF shouldAutoStage THEN Continue("getUnstagedFiles") ELSE Continue("getStagedDiff")

\* const unstagedFiles = shouldAutoStage ? await getUnstagedFiles() : []
handleCommit_afterHasStagedChanges(shouldAutoStage, hasStaged) ==
    IF shouldAutoStage
    THEN Continue("getUnstagedFiles")
    ELSE handleCommit_afterUnstagedFiles(shouldAutoStage, hasStaged, <<>>)

\* Mutant: the confirmation request is returned after staging as well.
M_afterStageFiles_confirm(threw) ==
    IF threw
    THEN Finish(Thrown(CatchBlock(CommitPrefix,
                PlainError(<<"Failed to stage files: ", "git">>))))
    ELSE Finish(Returned([success |-> FALSE, needs_confirmation |-> TRUE,
                          message |-> <<"Found unstaged files">>,
                          unstaged_files |-> <<>>,
                          suggestion |-> "call again with auto_stage: true"]))

\* Mutant: after staging the run checks the index again.
M_afterStageFiles_recheck(threw) ==
    IF threw
    THEN Finish(Thrown(CatchBlock(CommitPrefix,
                PlainError(<<"Failed to stage files: ", "git">>))))
    ELSE Continue("hasStagedChanges")

\* stageFiles resolved or threw.
handleCommit_afterStageFiles(threw) ==
    IF threw
    THEN Finish(Thrown(CatchBlock(CommitPrefix,
                PlainError(<<"Failed to stage files: ", "git">>))))
    ELSE Continue("getStagedDiff")

\* Mutant: a failed diff retrieval does not stop the run.
M_afterGetStagedDiff_ignoreThrow(diff) == Continue("request")

\* getStagedDiff resolved or threw.
handleCommit_afterGetStagedDiff(diff) ==
    IF diff.threw
    THEN Finish(Thrown(CatchBlock(CommitPrefix, PlainError(diff.error))))
    ELSE Continue("request")

\* validatedArgs.style || "default"
selectedPreset(style) == IF style = "" THEN "default" ELSE style

\* AGENT_PRESETS: the sections each preset record carries.  Only the default
\* preset has an output_format section.
AGENT_PRESETS ==
    [s \in Styles |->
        [name |-> s,
         sections |-> {"agent", "absolute_rules", "instructions_for_ai"}
                      \cup (IF s = "default" THEN {"output_format"} ELSE {})]]

\* buildSystemPrompt: the template reads presetConfig.output_format.requirements
\* and throws a TypeError when the preset has no output_format.
buildSystemPrompt(presetConfig) ==
    IF "output_format" \in presetConfig.sections
    THEN [threw |-> FALSE, error |-> <<>>]
    ELSE [threw |-> TRUE, error |-> <<"Cannot read properties of undefined">>]

\* ---------------------------------------------------------------- configuration

\* CommitSmithConfigSchema.parse({}): every field at its default.  An optional
\* field that is not set is "absent".
DefaultConfig ==
    [agent |-> [preset |-> "default", custom_prompt |-> "absent"],
     behavior |-> [require_confirmation |-> TRUE]]

\* Values a caller can put in an update.  "absent" is a key the object does not
\* carry and "undefined" a key carried with the value undefined; "bogus",
\* "number" and "yes" are values outside the schema's types.  A custom prompt
\* is a string that is JSON ("json") or is not ("notjson").
PresetUpdates == {"absent", "undefined", "strict", "bogus"}
PromptUpdates == {"absent", "json", "notjson", "number"}
ConfirmUpdates == {"absent", "true", "false", "yes"}

\* Partial<CommitSmithConfig>: each section is there or not.
ConfigUpdates ==
    [agent : {[present |-> FALSE, preset |-> "absent", custom_prompt |-> "absent"]}
             \cup [present : {TRUE}, preset : PresetUpdates, custom_prompt : PromptUpdates],
     behavior : {[present |-> FALSE, require_confirmation |-> "absent"]}
                \cup [present : {TRUE}, require_confirmation : ConfirmUpdates]]

\* One key of { ...stored, ...update }: the update's value when it carries the key.
Spread(stored, update) == IF update = "absent" THEN stored ELSE update

\* CommitSmithConfigSchema.parse: rejects a value of the wrong type, fills the
\* default where a defaulted key is missing or undefined.
CommitSmithConfigSchemaParse(raw) ==
    IF \/ raw.agent.preset \notin (Styles \cup {"undefined"})
       \/ raw.agent.custom_prompt \notin {"absent", "undefined", "json", "notjson"}
       \/ raw.behavior.require_confirmation \notin {"true", "false", "undefined"}
    THEN [threw |-> TRUE, config |-> DefaultConfig]
    ELSE [threw |-> FALSE,
          config |->
            [agent |-> [preset |-> IF raw.agent.preset = "undefined" THEN "default"
                                   ELSE raw.agent.preset,
                        custom_prompt |-> IF raw.agent.custom_prompt = "undefined" THEN "absent"
                                          ELSE raw.agent.custom_prompt],
             behavior |-> [require_confirmation |->
                              raw.behavior.require_confirmation \in {"true", "undefined"}]]]

\* The stored configuration as the object the spread reads.
RawConfig(stored) ==
    [agent |-> stored.agent,
     behavior |-> [require_confirmation |->
                      IF stored.behavior.require_confirmation THEN "true" ELSE "false"]]

\* Mutant: the update's sections replace the stored ones whole.
M_updateConfig_shallow(stored, updates) ==
    CommitSmithConfigSchemaParse(
        [agent |-> IF updates.agent.present
                   THEN [preset |-> Spread("undefined", updates.agent.preset),
                         custom_prompt |-> updates.agent.custom_prompt]
                   ELSE RawConfig(stored).agent,
         behavior |-> IF updates.behavior.present
                      THEN [require_confirmation |->
                               Spread("undefined", updates.behavior.require_confirmation)]
                      ELSE RawConfig(stored).behavior])

\* ConfigManager.updateConfig up to the assignment: the value parse returns, or
\* that it threw.  { ...this.config.agent, ...updates.agent } spreads nothing
\* when the update has no agent section.
updateConfig(stored, updates) ==
    CommitSmithConfigSchemaParse(
        [agent |-> [preset |-> Spread(RawConfig(stored).agent.preset, updates.agent.preset),
                    custom_prompt |-> Spread(RawConfig(stored).agent.custom_prompt,
                                             updates.agent.custom_prompt)],
         behavior |-> [require_confirmation |->
                          Spread(RawConfig(stored).behavior.require_confirmation,
                                 updates.behavior.require_confirmation)]])

\* ConfigManager.getAgentPrompt: the parsed custom prompt when there is one and
\* it is JSON, else a copy of the configured preset.
getAgentPrompt(stored) ==
    IF stored.agent.custom_prompt = "json"
    THEN <<"custom">>
    ELSE <<"preset", AGENT_PRESETS[stored.agent.preset].name>>

\* ---------------------------------------------------------------- resources

\* The uris the ListResources handler returns, in order.
ListedResources == <<"commit://agent-definition", "commit://presets", "commit://ai-guide">>

\* Uris a client may ask for.
RequestedUris == {"commit://agent-definition", "commit://presets", "commit://ai-guide",
                  "commit://unknown", "config://current"}

Contents(uri, text) == Returned([uri |-> uri, mimeType |-> "application/json", text |-> text])

\* The switch of the ReadResource handler.
readResourceSwitch(uri, stored) ==
    CASE uri = "commit://agent-definition" -> Contents(uri, getAgentPrompt(stored))
      [] uri = "commit://presets" -> Contents(uri, <<"presets">>)
      [] uri = "commit://ai-guide" -> Contents(uri, <<"ai-guide">>)
      [] OTHER -> Thrown(McpError("InvalidRequest", <<"Unknown resource: ", uri>>))

\* The ReadResource handler: whatever the switch throws is caught and thrown
\* again as an InternalError.
readResource(uri, stored) ==
    LET o == readResourceSwitch(uri, stored)
    IN IF o.kind = "error"
       THEN Thrown(McpError("InternalError", <<"Failed to read resource: ">> \o o.error.message))
       ELSE o

\* The replies server.request may settle with: a rejection (transport failure,
\* or a reply that does not match SamplingResponseSchema), or a reply with a text.
Replies ==
    {[kind |-> "transport", text |-> <<>>], [kind |-> "malformed", text |-> <<>>]}
    \cup [kind : {"reply"}, text : Texts]

SamplingPrefix == "Failed to generate commit message using sampling: "

\* generateCommitMessageWithSampling: the prompts are built first, and the
\* request is issued only if that succeeds; every failure inside is rethrown as
\* a plain Error carrying the cause's message.
generateCommitMessageWithSampling(presetConfig, reply) ==
    IF buildSystemPrompt(presetConfig).threw
    THEN [issued |-> FALSE, threw |-> TRUE, text |-> <<>>,
          error |-> PlainError(<<SamplingPrefix>> \o buildSystemPrompt(presetConfig).error)]
    ELSE IF reply.kind # "reply"
    THEN [issued |-> TRUE, threw |-> TRUE, text |-> <<>>,
          error |-> PlainError(<<SamplingPrefix, reply.kind>>)]
    ELSE IF reply.text # <<>>
    THEN [issued |-> TRUE, threw |-> FALSE, error |-> PlainError(<<>>),
          text |-> Trim(reply.text)]
    ELSE [issued |-> TRUE, threw |-> TRUE, text |-> <<>>,
          error |-> PlainError(<<SamplingPrefix, "Invalid response from sampling request">>)]

\* Mutant: after a failed generation the handler never settles.
M_afterGenerate_hangOnThrow(gen) ==
    IF gen.threw THEN Continue("hung") ELSE Continue("validate")

\* Mutant: a failed generation does not stop the run.
M_afterGenerate_ignoreThrow(gen) == Continue("validate")

\* The candidate came back, or generation threw.
handleCommit_afterGenerate(gen) ==
    IF gen.threw
    THEN Finish(Thrown(CatchBlock(CommitPrefix, gen.error)))
    ELSE Continue("validate")

\* CommitToolHandlers.validateCommitMessage: without a registered adapter the
\* message counts as valid and no validator runs.
validateCommitMessage(message) ==
    LET adapter == get("commitlint")
    IN  IF adapter = "undefined"
        THEN [invoked |-> FALSE, threw |-> FALSE, error |-> <<>>,
              valid |-> TRUE, errors |-> <<>>, warnings |-> <<>>]
        ELSE LET r == AdapterValidate(adapter, message)
             IN  [invoked |-> TRUE, threw |-> r.threw, error |-> r.error,
                  valid |-> r.valid, errors |-> r.errors, warnings |-> r.warnings]

\* adapter?.formatErrors?.(errors) ?? JSON.stringify(errors, null, 2)
formattedErrors(errors) ==
    IF get("commitlint") = "undefined" THEN <<"JSON", errors>> ELSE formatErrors(errors)

\* Mutant: an invalid message is treated like a valid one.
M_afterValidate_ignoreInvalid(v, commitMessage) ==
    IF v.threw
    THEN Finish(Thrown(CatchBlock(CommitPrefix, PlainError(v.error))))
    ELSE Continue("prepareCommitMessage")

\* Mutant: the rejection payload of handleCommit leaves the candidate out.
M_afterValidate_noEcho(v, commitMessage) ==
    IF v.threw
    THEN Finish(Thrown(CatchBlock(CommitPrefix, PlainError(v.error))))
    ELSE IF ~v.valid
    THEN Finish(Returned([success |-> FALSE,
                          validation_errors |-> v.errors,
                          formatted_errors |-> formattedErrors(v.errors),
                          suggestion |-> "try again with different parameters"]))
    ELSE Continue("prepareCommitMessage")

\* From the validation result to the next await or the rejection payload.
handleCommit_afterValidate(v, commitMessage) ==
    IF v.threw
    THEN Finish(Thrown(CatchBlock(CommitPrefix, PlainError(v.error))))
    ELSE IF ~v.valid
    THEN Finish(Returned([success |-> FALSE,
                          generated_message |-> commitMessage,
                          validation_errors |-> v.errors,
                          formatted_errors |-> formattedErrors(v.errors),
                          suggestion |-> "try again with different parameters"]))
    ELSE Continue("prepareCommitMessage")

\* The success payload of handleCommit.
handleCommit_success(commitMessage, v, filesStaged, shouldAutoCommit, commitSha) ==
    Finish(Returned([success |-> TRUE,
                     message |-> "Commit process completed successfully",
                     commit_message |-> commitMessage,
                     validation |-> [valid |-> v.valid, warnings |-> v.warnings],
                     files_staged |-> filesStaged,
                     auto_committed |-> shouldAutoCommit,
                     commit_sha |-> commitSha,
                     next_step |-> IF shouldAutoCommit
                                   THEN "Commit completed successfully"
                                   ELSE "review and commit manually"]))

\* Mutant: a failure to write the message does not stop the run.
M_afterPrepare_ignoreThrow(threw, shouldAutoCommit, commitMessage, v, filesStaged) ==
    IF shouldAutoCommit
    THEN Continue("commitWithMessage")
    ELSE handleCommit_success(commitMessage, v, filesStaged, shouldAutoCommit, <<>>)

\* Mutant: a run that skips the commit reports it as performed.
M_afterPrepare_reportsCommitted(threw, shouldAutoCommit, commitMessage, v, filesStaged) ==
    IF threw
    THEN Finish(Thrown(CatchBlock(CommitPrefix,
                PlainError(<<"Failed to prepare commit message: ", "fs">>))))
    ELSE IF shouldAutoCommit
    THEN Continue("commitWithMessage")
    ELSE handleCommit_success(commitMessage, v, filesStaged, TRUE, <<>>)

\* prepareCommitMessage resolved or threw; then the commit decision.
handleCommit_afterPrepare(threw, shouldAutoCommit, commitMessage, v, filesStaged) ==
    IF threw
    THEN Finish(Thrown(CatchBlock(CommitPrefix,
                PlainError(<<"Failed to prepare commit message: ", "fs">>))))
    ELSE IF shouldAutoCommit
    THEN Continue("commitWithMessage")
    ELSE handleCommit_success(commitMessage, v, filesStaged, shouldAutoCommit, <<>>)

\* Mutant: a failed commit is reported in a success payload.
M_afterCommit_returnsOnFailure(commitResult, shouldAutoCommit, commitMessage, v, filesStaged) ==
    handleCommit_success(commitMessage, v, filesStaged, shouldAutoCommit,
                         commitResult.commitSha)

\* if (!commitResult.success) throw McpError(InternalError, error || "Failed to commit")
handleCommit_afterCommit(commitResult, shouldAutoCommit, commitMessage, v, filesStaged) ==
    IF ~commitResult.success
    THEN Finish(Thrown(CatchBlock(CommitPrefix,
                McpError("InternalError",
                         IF commitResult.error # <<>> THEN commitResult.error
                         ELSE <<"Failed to commit">>))))
    ELSE handleCommit_success(commitMessage, v, filesStaged, shouldAutoCommit,
                              commitResult.commitSha)

\* ---------------------------------------------------------------- handleValidateAndCommit

ValidatePrefix == "Validate and commit operation failed: "

\* const validatedArgs = ValidateAndCommitSchema.parse(args), before the try block.
handleValidateAndCommit_parse(raw) ==
    LET parsed == ValidateAndCommitSchemaParse(raw)
    IN  IF parsed.ok THEN Continue("checkIsRepo") ELSE Finish(Thrown(ZodError))

\* Mutant: the result of the repository check is ignored.
M_validateAndCommit_ignoreIsRepo(isRepoR) == Continue("validate")

\* Mutant: the handler looks at the index before validating.
M_validateAndCommit_checkStaged(isRepoR) ==
    IF ~isRepoR
    THEN Finish(Thrown(CatchBlock(ValidatePrefix,
                McpError("InvalidParams", <<"Not in a git repository">>))))
    ELSE Continue("hasStagedChanges")

\* if (!isRepo) throw McpError(InvalidParams, ...)
handleValidateAndCommit_afterCheckIsRepo(isRepoR) ==
    IF ~isRepoR
    THEN Finish(Thrown(CatchBlock(ValidatePrefix,
                McpError("InvalidParams", <<"Not in a git repository">>))))
    ELSE Continue("validate")

\* ValidateAndCommitToolHandlers.validateCommitMessage
validateAndCommit_validateCommitMessage(message) ==
    LET adapter == get("commitlint")
    IN  IF adapter = "undefined"
        THEN [invoked |-> FALSE, threw |-> FALSE, error |-> <<>>,
              valid |-> TRUE, errors |-> <<>>, warnings |-> <<>>]
        ELSE LET r == AdapterValidate(adapter, message)
             IN  [invoked |-> TRUE, threw |-> r.threw, error |-> r.error,
                  valid |-> r.valid, errors |-> r.errors, warnings |-> r.warnings]

\* The rejection payload carries the violations, not the message.
handleValidateAndCommit_afterValidate(v) ==
    IF v.threw
    THEN Finish(Thrown(CatchBlock(ValidatePrefix, PlainError(v.error))))
    ELSE IF ~v.valid
    THEN Finish(Returned([success |-> FALSE,
                          validation_errors |-> v.errors,
                          formatted_errors |-> formattedErrors(v.errors),
                          suggestion |-> "fix the message and try again"]))
    ELSE Continue("prepareCommitMessage")

\* Mutant: the handler counts its calls and reports a repeated one differently.
M_validateAndCommit_success_counted(message, v, autoCommit, commitSha) ==
    Finish(Returned([success |-> TRUE,
                     message |-> IF runs > 1
                                 THEN "Commit message validated and prepared again"
                                 ELSE "Commit message validated and prepared successfully",
                     commit_message |-> message,
                     validation |-> [valid |-> v.valid, warnings |-> v.warnings],
                     auto_committed |-> autoCommit,
                     commit_sha |-> commitSha,
                     next_step |-> IF autoCommit
                                   THEN "Commit completed successfully"
                                   ELSE "review and commit manually"]))

\* The success payload of handleValidateAndCommit.
handleValidateAndCommit_success(message, v, autoCommit, commitSha) ==
    Finish(Returned([success |-> TRUE,
                     message |-> "Commit message validated and prepared successfully",
                     commit_message |-> message,
                     validation |-> [valid |-> v.valid, warnings |-> v.warnings],
                     auto_committed |-> autoCommit,
                     commit_sha |-> commitSha,
                     next_step |-> IF autoCommit
                                   THEN "Commit completed successfully"
                                   ELSE "review and commit manually"]))

\* Mutant: the commit is performed whatever auto_commit says.
M_validateAndCommit_alwaysCommit(threw, autoCommit, message, v) ==
    IF threw
    THEN Finish(Thrown(CatchBlock(ValidatePrefix,
                PlainError(<<"Failed to prepare commit message: ", "fs">>))))
    ELSE Continue("commitWithMessage")

\* prepareCommitMessage resolved or threw; then the commit decision.
handleValidateAndCommit_afterPrepare(threw, autoCommit, message, v) ==
    IF threw
    THEN Finish(Thrown(CatchBlock(ValidatePrefix,
                PlainError(<<"Failed to prepare commit message: ", "fs">>))))
    ELSE IF autoCommit
    THEN Continue("commitWithMessage")
    ELSE handleValidateAndCommit_success(message, v, autoCommit, <<>>)

\* if (!commitResult.success) throw McpError(InternalError, error || "Failed to commit")
handleValidateAndCommit_afterCommit(commitResult, autoCommit, message, v) ==
    IF ~commitResult.success
    THEN Finish(Thrown(CatchBlock(ValidatePrefix,
                McpError("InternalError",
                         IF commitResult.error # <<>> THEN commitResult.error
                         ELSE <<"Failed to commit">>))))
    ELSE handleValidateAndCommit_success(message, v, autoCommit, commitResult.commitSha)

\* ---------------------------------------------------------------- server dispatch

\* Mutant: the request handler lets every error through as it is.
M_CallToolCatch_rethrow(error) == error

\* The catch clause of the CallTool request handler: an McpError passes, a
\* ZodError becomes InvalidParams, anything else InternalError.
CallToolCatch(error) ==
    IF error.mcp THEN error
    ELSE IF error.zod
    THEN McpError("InvalidParams", <<"Invalid parameters: ">> \o error.message)
    ELSE McpError("InternalError", <<"Tool execution failed: ">> \o error.message)

\* What the host receives for what the handler returned or threw.
CallTool(o) == IF o.kind = "error" THEN Thrown(CallToolCatch(o.error)) ELSE o

\* default: throw new McpError(ErrorCode.MethodNotFound, `Unknown tool: ${name}`)
CallToolDefault(name) == Finish(Thrown(McpError("MethodNotFound", <<"Unknown tool: ", name>>)))

\* Tool names the switch has no case for.
OtherTools == {"status"}

\* ---------------------------------------------------------------- actions

Go(nx) == pc' = nx.pc /\ outcome' = CallTool(nx.outcome)

Log(op, arg, res) == calls' = Append(calls, Call(op, arg, res))

\* No earlier run to compare with.
NoPrev ==
    [set |-> FALSE, message |-> <<>>, threw |-> FALSE, validation |-> InitRun.validation]

\* What the finished run leaves for comparison when the next call begins: the
\* message and the validation result of a handleValidateAndCommit run with
\* auto_commit = false that got past the repository check.
FinishedRun ==
    IF /\ pc = "done" /\ tool = "validate_and_commit" /\ run.parsed /\ ~args.auto_commit
       /\ Len(calls) >= 1 /\ calls[1].res
    THEN [set |-> TRUE, message |-> args.message,
          threw |-> \E i \in 1..Len(calls) :
                       calls[i].op = "validate" /\ calls[i].res = "threw",
          validation |-> run.validation]
    ELSE NoPrev

\* The call being parsed repeats the finished run: the same message, again
\* with auto_commit = false.
Repeats(parsed) ==
    /\ FinishedRun.set
    /\ parsed.ok
    /\ parsed.value.message = FinishedRun.message
    /\ ~parsed.value.auto_commit

\* A tool call arrives for the commit tool.
BeginCommit ==
    /\ pc \in {"idle", "done"} /\ runs < MaxRuns
    /\ \E raw \in RawCommitArgs :
         /\ args' = CommitSchemaParse(raw).value
         /\ Go(handleCommit_parse(raw))
         /\ run' = [InitRun EXCEPT !.parsed = CommitSchemaParse(raw).ok,
                                   !.staged0 = staged, !.unstaged0 = unstaged,
                                   !.omitted = /\ raw.style = "absent"
                                               /\ raw.auto_commit = "absent"
                                               /\ raw.auto_stage = "absent",
                                   !.unknownStyle =
                                       /\ raw.style \notin (Styles \cup {"absent"})
                                       /\ CommitSchemaParse(
                                              [raw EXCEPT !.style = "absent"]).ok]
    /\ tool' = "commit" /\ calls' = <<>> /\ runs' = runs + 1
    /\ prev' = NoPrev
    /\ UNCHANGED <<repoVars, registryVars, suspended, managerConfig>>

\* A tool call arrives under a name the server does not know.
BeginUnknownTool ==
    /\ pc \in {"idle", "done"} /\ runs < MaxRuns
    /\ \E name \in OtherTools :
         /\ tool' = name
         /\ Go(CallToolDefault(name))
    /\ args' = NoArgs /\ run' = InitRun /\ calls' = <<>> /\ runs' = runs + 1
    /\ prev' = NoPrev
    /\ UNCHANGED <<repoVars, registryVars, suspended, managerConfig>>

\* A tool call arrives for the validate_and_commit tool.
BeginValidateAndCommit ==
    /\ pc \in {"idle", "done"} /\ runs < MaxRuns
    /\ \E raw \in RawValidateAndCommitArgs :
         /\ args' = ValidateAndCommitSchemaParse(raw).value
         /\ Go(handleValidateAndCommit_parse(raw))
         /\ run' = [InitRun EXCEPT !.parsed = ValidateAndCommitSchemaParse(raw).ok,
                                   !.staged0 = staged, !.unstaged0 = unstaged]
         /\ prev' = IF Repeats(ValidateAndCommitSchemaParse(raw)) THEN FinishedRun ELSE NoPrev
    /\ tool' = "validate_and_commit" /\ calls' = <<>> /\ runs' = runs + 1
    /\ UNCHANGED <<repoVars, registryVars, suspended, managerConfig>>

\* await this.gitOps.checkIsRepo(), in either handler
CheckIsRepo ==
    /\ pc = "checkIsRepo"
    /\ \E gitOk \in BOOLEAN :
         /\ Go(IF tool = "commit"
               THEN handleCommit_afterCheckIsRepo(checkIsRepo(gitOk))
               ELSE handleValidateAndCommit_afterCheckIsRepo(checkIsRepo(gitOk)))
         /\ Log("checkIsRepo", <<>>, checkIsRepo(gitOk))
    /\ UNCHANGED <<repoVars, registryVars, tool, args, run, runs,
                   dispatchVars, managerConfig>>

\* await this.gitOps.hasStagedChanges()
HasStagedChanges ==
    /\ pc = "hasStagedChanges"
    /\ \E gitOk \in BOOLEAN :
         LET r == hasStagedChanges(gitOk)
         IN  /\ run' = [run EXCEPT !.hasStagedChanges = r]
             /\ Go(handleCommit_afterHasStagedChanges(args.auto_stage, r))
             /\ Log("hasStagedChanges", <<>>, r)
    /\ UNCHANGED <<repoVars, registryVars, tool, args, runs,
                   dispatchVars, managerConfig>>

\* await this.gitOps.getUnstagedFiles()
GetUnstagedFiles ==
    /\ pc = "getUnstagedFiles"
    /\ \E gitOk \in BOOLEAN :
         LET r == getUnstagedFiles(gitOk)
         IN  /\ run' = [run EXCEPT !.unstagedFiles = r]
             /\ Go(handleCommit_afterUnstagedFiles(args.auto_stage, run.hasStagedChanges, r))
             /\ Log("getUnstagedFiles", <<>>, r)
    /\ UNCHANGED <<repoVars, registryVars, tool, args, runs,
                   dispatchVars, managerConfig>>

\* await this.gitOps.stageFiles(unstagedFiles); filesStaged = unstagedFiles.length.
\* git add moves the listed files' working-tree content into the index; a file
\* whose index change is undone by its working-tree content (reverted) leaves
\* the staged diff.
StageFiles ==
    /\ pc = "stageFiles"
    /\ \E gitOk \in BOOLEAN :
         /\ IF gitOk
            THEN /\ \E reverted \in SUBSET (staged \cap Range(run.unstagedFiles)) :
                      staged' = (staged \cup Range(run.unstagedFiles)) \ reverted
                 /\ unstaged' = unstaged \ Range(run.unstagedFiles)
                 /\ run' = [run EXCEPT !.filesStaged = Len(run.unstagedFiles)]
            ELSE UNCHANGED <<staged, unstaged, run>>
         /\ Go(handleCommit_afterStageFiles(~gitOk))
         /\ Log("stageFiles", run.unstagedFiles, gitOk)
    /\ UNCHANGED <<isRepo, editMsg, commits, registryVars, tool, args, runs,
                   dispatchVars, managerConfig>>

\* await this.gitOps.getStagedDiff()
GetStagedDiff ==
    /\ pc = "getStagedDiff"
    /\ \E gitOk \in BOOLEAN :
         LET r == getStagedDiff(gitOk)
         IN  /\ run' = [run EXCEPT !.stagedDiff = r.content]
             /\ Go(handleCommit_afterGetStagedDiff(r))
             /\ Log("getStagedDiff", <<>>, r)
    /\ UNCHANGED <<repoVars, registryVars, tool, args, runs,
                   dispatchVars, managerConfig>>

\* await this.generateCommitMessageWithSampling(...): the prompts are built and,
\* if that succeeds, server.request(samplingRequest, SamplingResponseSchema)
\* is issued and settles.
Generate ==
    /\ pc = "request"
    /\ \E reply \in Replies :
         LET gen == generateCommitMessageWithSampling(
                        AGENT_PRESETS[selectedPreset(args.style)], reply)
         IN  /\ run' = [run EXCEPT !.commitMessage = gen.text]
             /\ Go(handleCommit_afterGenerate(gen))
             /\ calls' =
                  IF gen.issued
                  THEN Append(calls,
                         Call("request",
                              <<selectedPreset(args.style), run.stagedDiff, args.request>>,
                              reply))
                  ELSE calls
    /\ UNCHANGED <<repoVars, registryVars, tool, args, runs,
                   dispatchVars, managerConfig>>

\* Mutant: the message is trimmed again once the validator has seen it.
M_Candidate_retrimmed ==
    IF tool = "commit" THEN run.commitMessage
    ELSE IF pc = "validate" THEN args.message
    ELSE Trim(args.message)

\* The message a run validates, persists and commits.
Candidate == IF tool = "commit" THEN run.commitMessage ELSE args.message

\* Mutant: a rejected candidate makes the handler restore the index it found.
M_Validate_unstagesOnReject ==
    /\ pc = "validate"
    /\ LET v == IF tool = "commit"
                THEN validateCommitMessage(Candidate)
                ELSE validateAndCommit_validateCommitMessage(Candidate)
       IN  /\ run' = [run EXCEPT !.validation =
                        [valid |-> v.valid, errors |-> v.errors, warnings |-> v.warnings]]
           /\ Go(IF tool = "commit"
                 THEN handleCommit_afterValidate(v, Candidate)
                 ELSE handleValidateAndCommit_afterValidate(v))
           /\ calls' = IF v.invoked
                       THEN Append(calls, Call("validate", Candidate,
                                               IF v.threw THEN "threw"
                                               ELSE IF v.valid THEN "valid" ELSE "invalid"))
                       ELSE calls
           /\ staged' = IF v.valid THEN staged ELSE run.staged0
           /\ unstaged' = IF v.valid THEN unstaged ELSE run.unstaged0
    /\ UNCHANGED <<isRepo, editMsg, commits, registryVars, tool, args, runs,
                   dispatchVars, managerConfig>>

\* await this.validateCommitMessage(message), in either handler
Validate ==
    /\ pc = "validate"
    /\ LET v == IF tool = "commit"
                THEN validateCommitMessage(Candidate)
                ELSE validateAndCommit_validateCommitMessage(Candidate)
       IN  /\ run' = [run EXCEPT !.validation =
                        [valid |-> v.valid, errors |-> v.errors, warnings |-> v.warnings]]
           /\ Go(IF tool = "commit"
                 THEN handleCommit_afterValidate(v, Candidate)
                 ELSE handleValidateAndCommit_afterValidate(v))
           /\ calls' = IF v.invoked
                       THEN Append(calls, Call("validate", Candidate,
                                               IF v.threw THEN "threw"
                                               ELSE IF v.valid THEN "valid" ELSE "invalid"))
                       ELSE calls
    /\ UNCHANGED <<repoVars, registryVars, tool, args, runs,
                   dispatchVars, managerConfig>>

\* await this.gitOps.prepareCommitMessage(message), in either handler
PrepareCommitMessage ==
    /\ pc = "prepareCommitMessage"
    /\ \E fsOk \in BOOLEAN :
         /\ editMsg' = IF fsOk THEN Candidate ELSE editMsg
         /\ Go(IF tool = "commit"
               THEN handleCommit_afterPrepare(~fsOk, args.auto_commit, Candidate,
                                              run.validation, run.filesStaged)
               ELSE handleValidateAndCommit_afterPrepare(~fsOk, args.auto_commit, Candidate,
                                                         run.validation))
         /\ Log("prepareCommitMessage", Candidate, fsOk)
    /\ UNCHANGED <<isRepo, staged, unstaged, commits, registryVars, tool, args, run, runs,
                   dispatchVars, managerConfig>>

\* await this.gitOps.commitWithMessage(message, false), in either handler
CommitWithMessage ==
    /\ pc = "commitWithMessage"
    /\ \E gitOk \in BOOLEAN :
         LET r == CommitResult(gitOk, FALSE)
         IN  /\ IF r.success
                THEN /\ commits' = Append(commits, [message |-> Candidate, files |-> staged])
                     /\ staged' = {}
                ELSE UNCHANGED <<commits, staged>>
             /\ run' = [run EXCEPT !.commitResult = r]
             /\ Go(IF tool = "commit"
                   THEN handleCommit_afterCommit(r, args.auto_commit, Candidate,
                                                 run.validation, run.filesStaged)
                   ELSE handleValidateAndCommit_afterCommit(r, args.auto_commit, Candidate,
                                                            run.validation))
             /\ Log("commitWithMessage", Candidate, r)
    /\ UNCHANGED <<isRepo, unstaged, editMsg, registryVars, tool, args, runs,
                   dispatchVars, managerConfig>>

\* validationAdapterRegistry.register(new CommitlintAdapter()), in the constructor
\* of the server: before any tool call.
Register ==
    \E a \in Instances :
        /\ pc = "idle"
        /\ register(a)
        /\ UNCHANGED <<config, repoVars, pc, tool, args, run, calls, outcome, runs,
                       dispatchVars, managerConfig>>

\* await defaultAdapter.loadConfig(), in start(): before the transport connects.
LoadConfig ==
    \E a \in Instances :
        /\ pc = "idle"
        /\ get("commitlint") = a /\ config[a] = "null"
        /\ \E qualified \in BOOLEAN : loadConfig(a, qualified)
        /\ UNCHANGED <<adapters, repoVars, pc, tool, args, run, calls, outcome, runs,
                       dispatchVars, managerConfig>>

Init ==
    /\ isRepo \in BOOLEAN
    /\ staged \in SUBSET Files
    /\ unstaged \in SUBSET Files
    /\ editMsg = <<>>
    /\ commits = <<>>
    /\ adapters = <<>>
    /\ config = [a \in Instances |-> "null"]
    /\ pc = "idle"
    /\ tool = "commit"
    /\ args = NoArgs
    /\ run = InitRun
    /\ calls = <<>>
    /\ outcome = NoOutcome
    /\ runs = 0
    /\ prev = NoPrev
    /\ suspended = <<>>
    /\ managerConfig = DefaultConfig

Next ==
    \/ BeginCommit
    \/ BeginValidateAndCommit
    \/ BeginUnknownTool
    \/ CheckIsRepo
    \/ HasStagedChanges
    \/ GetUnstagedFiles
    \/ StageFiles
    \/ GetStagedDiff
    \/ Generate
    \/ Validate
    \/ PrepareCommitMessage
    \/ CommitWithMessage
    \/ Register
    \/ LoadConfig

Spec == Init /\ [][Next]_vars

\* ---------------------------------------------------------------- registry alone

\* validationAdapterRegistry.register(adapter) by any caller, as registry.test.ts does.
RegisterAdapter ==
    \E a \in Adapters :
        /\ pc = "registry"
        /\ Len(calls) < MaxRegs
        /\ register(a)
        /\ Log("register", a, TRUE)
        /\ UNCHANGED <<config, repoVars, pc, tool, args, run, outcome, runs, dispatchVars, managerConfig>>

\* A fresh ValidationAdapterRegistry: adapters = new Map().
InitRegistry ==
    /\ isRepo = FALSE
    /\ staged = {}
    /\ unstaged = {}
    /\ editMsg = <<>>
    /\ commits = <<>>
    /\ adapters = <<>>
    /\ config = [a \in Instances |-> "null"]
    /\ pc = "registry"
    /\ tool = "commit"
    /\ args = NoArgs
    /\ run = InitRun
    /\ calls = <<>>
    /\ outcome = NoOutcome
    /\ runs = 0
    /\ prev = NoPrev
    /\ suspended = <<>>
    /\ managerConfig = DefaultConfig

NextRegistry == RegisterAdapter

SpecRegistry == InitRegistry /\ [][NextRegistry]_vars

\* ---------------------------------------------------------------- repository adapter alone

\* One call on the GitOperations object, with whether the underlying git
\* command went through and, for commitWithMessage, the dryRun flag.
GitCall(op, arg, res, gitOk, dryRun) ==
    [op |-> op, arg |-> arg, res |-> res, git |-> gitOk, dryRun |-> dryRun]

CallCheckIsRepo ==
    /\ pc = "gitops" /\ Len(calls) < MaxCalls
    /\ \E gitOk \in BOOLEAN :
         calls' = Append(calls, GitCall("checkIsRepo", <<>>, checkIsRepo(gitOk), gitOk, FALSE))
    /\ UNCHANGED <<repoVars, registryVars, pc, tool, args, run, outcome, runs, dispatchVars, managerConfig>>

CallHasStagedChanges ==
    /\ pc = "gitops" /\ Len(calls) < MaxCalls
    /\ \E gitOk \in BOOLEAN :
         calls' = Append(calls, GitCall("hasStagedChanges", <<>>, hasStagedChanges(gitOk),
                                        gitOk, FALSE))
    /\ UNCHANGED <<repoVars, registryVars, pc, tool, args, run, outcome, runs, dispatchVars, managerConfig>>

CallGetUnstagedFiles ==
    /\ pc = "gitops" /\ Len(calls) < MaxCalls
    /\ \E gitOk \in BOOLEAN :
         calls' = Append(calls, GitCall("getUnstagedFiles", <<>>, getUnstagedFiles(gitOk),
                                        gitOk, FALSE))
    /\ UNCHANGED <<repoVars, registryVars, pc, tool, args, run, outcome, runs, dispatchVars, managerConfig>>

CallGetStagedFiles ==
    /\ pc = "gitops" /\ Len(calls) < MaxCalls
    /\ \E gitOk \in BOOLEAN :
         calls' = Append(calls, GitCall("getStagedFiles", <<>>, getStagedFiles(gitOk),
                                        gitOk, FALSE))
    /\ UNCHANGED <<repoVars, registryVars, pc, tool, args, run, outcome, runs, dispatchVars, managerConfig>>

\* commitWithMessage(message, dryRun): git.commit is reached only without dryRun.
CallCommitWithMessage ==
    /\ pc = "gitops" /\ Len(calls) < MaxCalls
    /\ \E gitOk \in BOOLEAN, dryRun \in BOOLEAN, message \in Texts :
         LET r == CommitResult(gitOk, dryRun)
         IN  /\ IF ~dryRun /\ gitOk
                THEN /\ commits' = Append(commits, [message |-> message, files |-> staged])
                     /\ staged' = {}
                ELSE UNCHANGED <<commits, staged>>
             /\ calls' = Append(calls, GitCall("commitWithMessage", message, r, gitOk, dryRun))
    /\ UNCHANGED <<isRepo, unstaged, editMsg, registryVars, pc, tool, args, run, outcome,
                   runs, dispatchVars, managerConfig>>

\* A GitOperations object on any working directory.
InitGitOps ==
    /\ isRepo \in BOOLEAN
    /\ staged \in SUBSET Files
    /\ unstaged \in SUBSET Files
    /\ editMsg = <<>>
    /\ commits = <<>>
    /\ adapters = <<>>
    /\ config = [a \in Instances |-> "null"]
    /\ pc = "gitops"
    /\ tool = "commit"
    /\ args = NoArgs
    /\ run = InitRun
    /\ calls = <<>>
    /\ outcome = NoOutcome
    /\ runs = 0
    /\ prev = NoPrev
    /\ suspended = <<>>
    /\ managerConfig = DefaultConfig

NextGitOps ==
    \/ CallCheckIsRepo
    \/ CallHasStagedChanges
    \/ CallGetUnstagedFiles
    \/ CallGetStagedFiles
    \/ CallCommitWithMessage

SpecGitOps == InitGitOps /\ [][NextGitOps]_vars

\* ---------------------------------------------------------------- server start

\* Mutant: start goes on to connect the transport whatever loadConfig did.
M_start_afterLoadConfig_ignoreFailure(threw) == "connect"

\* start(): a throw of loadConfig reaches the catch clause, which exits.
start_afterLoadConfig(threw) == IF threw THEN "exited" ELSE "connect"

\* start(): server.connect either resolves, and requests are received, or throws.
start_afterConnect(threw) == IF threw THEN "exited" ELSE "idle"

\* new CommitSmithServer(): registers the commitlint adapter.
Constructor ==
    /\ pc = "new"
    /\ register("c1")
    /\ pc' = "start"
    /\ UNCHANGED <<config, repoVars, tool, args, run, calls, outcome, runs, dispatchVars, managerConfig>>

\* start(): const defaultAdapter = get('commitlint'); await defaultAdapter.loadConfig().
StartLoadConfig ==
    /\ pc = "start"
    /\ IF get("commitlint") # "undefined"
       THEN \E qualified \in BOOLEAN :
               /\ loadConfig(get("commitlint"), qualified)
               /\ pc' = start_afterLoadConfig(~qualified)
       ELSE /\ config' = config
            /\ pc' = "connect"
    /\ UNCHANGED <<adapters, repoVars, tool, args, run, calls, outcome, runs, dispatchVars, managerConfig>>

\* start(): await this.server.connect(transport).
Connect ==
    /\ pc = "connect"
    /\ \E ok \in BOOLEAN : pc' = start_afterConnect(~ok)
    /\ UNCHANGED <<registryVars, repoVars, tool, args, run, calls, outcome, runs,
                   dispatchVars, managerConfig>>

\* The process as main() runs it: construction, start, then tool calls.
InitServer ==
    /\ isRepo \in BOOLEAN
    /\ staged \in SUBSET Files
    /\ unstaged \in SUBSET Files
    /\ editMsg = <<>>
    /\ commits = <<>>
    /\ adapters = <<>>
    /\ config = [a \in Instances |-> "null"]
    /\ pc = "new"
    /\ tool = "commit"
    /\ args = NoArgs
    /\ run = InitRun
    /\ calls = <<>>
    /\ outcome = NoOutcome
    /\ runs = 0
    /\ prev = NoPrev
    /\ suspended = <<>>
    /\ managerConfig = DefaultConfig

NextServer ==
    \/ Constructor
    \/ StartLoadConfig
    \/ Connect
    \/ BeginCommit
    \/ BeginValidateAndCommit
    \/ BeginUnknownTool
    \/ CheckIsRepo
    \/ HasStagedChanges
    \/ GetUnstagedFiles
    \/ StageFiles
    \/ GetStagedDiff
    \/ Generate
    \/ Validate
    \/ PrepareCommitMessage
    \/ CommitWithMessage

SpecServer == InitServer /\ [][NextServer]_vars

\* The awaits of the two handlers: where a run is suspended.
AwaitPoints ==
    {"checkIsRepo", "hasStagedChanges", "getUnstagedFiles", "stageFiles",
     "getStagedDiff", "request", "validate", "prepareCommitMessage",
     "commitWithMessage"}

\* The awaited promise of the run in progress settles (returns or fails) and the
\* handler moves on: the step that one of CheckIsRepo .. CommitWithMessage takes,
\* told by the position alone.
Settle == pc \in AwaitPoints /\ pc' \in (AwaitPoints \cup {"done"}) \ {pc}

\* Every promise a run awaits settles eventually.
Settles == WF_pc(Settle)

SpecServerFair == SpecServer /\ Settles

\* ---------------------------------------------------------------- overlapping calls

\* What a suspended invocation of the handler holds in its closure.
Suspend == [pc |-> pc, tool |-> tool, args |-> args, run |-> run, calls |-> calls]

\* A second request is delivered while the handler of the first is suspended at
\* an await, where the event loop is free: nothing in setRequestHandler's callback
\* holds it back.
Preempt ==
    /\ pc \in AwaitPoints
    /\ suspended = <<>>
    /\ runs < MaxRuns
    /\ suspended' = <<Suspend>>
    /\ pc' = "idle"
    /\ UNCHANGED <<repoVars, registryVars, tool, args, run, calls, outcome, runs, prev, managerConfig>>

\* The awaited promise of the suspended invocation settles and it continues.
Resume ==
    /\ pc = "done"
    /\ suspended # <<>>
    /\ pc' = suspended[1].pc
    /\ tool' = suspended[1].tool
    /\ args' = suspended[1].args
    /\ run' = suspended[1].run
    /\ calls' = suspended[1].calls
    /\ outcome' = NoOutcome
    /\ suspended' = <<>>
    /\ prev' = NoPrev
    /\ UNCHANGED <<repoVars, registryVars, runs, managerConfig>>

NextConcurrent ==
    \/ Constructor
    \/ StartLoadConfig
    \/ Connect
    \/ BeginCommit
    \/ BeginValidateAndCommit
    \/ BeginUnknownTool
    \/ CheckIsRepo
    \/ HasStagedChanges
    \/ GetUnstagedFiles
    \/ StageFiles
    \/ GetStagedDiff
    \/ Generate
    \/ Validate
    \/ PrepareCommitMessage
    \/ CommitWithMessage
    \/ Preempt
    \/ Resume

SpecConcurrent == InitServer /\ [][NextConcurrent]_vars

\* ---------------------------------------------------------------- repeated calls

\* The run that just ended, as the host saw it: the request, the responses the
\* run received, and the outcome.
EndedRun ==
    [set |-> TRUE, message |-> args.message, threw |-> FALSE,
     validation |-> run.validation,
     tool |-> tool, args |-> args, calls |-> calls, outcome |-> outcome]

\* The host sends the request of the ended run once more: the same tool with
\* the same arguments, which the schema accepts as it did before.
BeginRepeat ==
    /\ pc = "done" /\ runs < MaxRuns
    /\ tool \in {"commit", "validate_and_commit"}
    /\ run.parsed
    /\ Go(Continue("checkIsRepo"))
    /\ run' = [InitRun EXCEPT !.parsed = TRUE,
                              !.staged0 = staged, !.unstaged0 = unstaged,
                              !.omitted = run.omitted,
                              !.unknownStyle = run.unknownStyle]
    /\ prev' = EndedRun
    /\ calls' = <<>> /\ runs' = runs + 1
    /\ UNCHANGED <<repoVars, registryVars, tool, args, suspended, managerConfig>>

NextRepeat ==
    \/ Constructor
    \/ StartLoadConfig
    \/ Connect
    \/ BeginCommit
    \/ BeginValidateAndCommit
    \/ BeginUnknownTool
    \/ BeginRepeat
    \/ CheckIsRepo
    \/ HasStagedChanges
    \/ GetUnstagedFiles
    \/ StageFiles
    \/ GetStagedDiff
    \/ Generate
    \/ Validate
    \/ PrepareCommitMessage
    \/ CommitWithMessage

SpecRepeat == InitServer /\ [][NextRepeat]_vars

\* ================================================================ the data-returning handleCommit

\* Mutant: the response tells the caller to commit whatever the request said.
M_handleCommit_returnData_autoCommitOn(diff, validatedArgs, filesStaged) ==
    IF diff.threw
    THEN Finish(Thrown(CatchBlock(CommitPrefix, PlainError(diff.error))))
    ELSE Finish(Returned([success |-> TRUE,
                          diff |-> diff.content,
                          user_request |-> validatedArgs.request,
                          selected_preset |-> selectedPreset(validatedArgs.style),
                          preset_config |-> AGENT_PRESETS[selectedPreset(validatedArgs.style)],
                          files_staged |-> filesStaged,
                          auto_commit |-> TRUE,
                          next_step |-> "generate a commit message, call validate_and_commit"]))

\* From getStagedDiff to the end of the handler that is constructed with the
\* repository adapter alone: the diff, the preset and the flags go back to the
\* caller, who generates the message.
handleCommit_returnData(diff, validatedArgs, filesStaged) ==
    IF diff.threw
    THEN Finish(Thrown(CatchBlock(CommitPrefix, PlainError(diff.error))))
    ELSE Finish(Returned([success |-> TRUE,
                          diff |-> diff.content,
                          user_request |-> validatedArgs.request,
                          selected_preset |-> selectedPreset(validatedArgs.style),
                          preset_config |-> AGENT_PRESETS[selectedPreset(validatedArgs.style)],
                          files_staged |-> filesStaged,
                          auto_commit |-> validatedArgs.auto_commit,
                          next_step |-> "generate a commit message, call validate_and_commit"]))

\* await this.gitOps.getStagedDiff() in that handler, and its return.
GetStagedDiffData ==
    /\ pc = "getStagedDiff"
    /\ \E gitOk \in BOOLEAN :
         LET r == getStagedDiff(gitOk)
         IN  /\ run' = [run EXCEPT !.stagedDiff = r.content]
             /\ Go(handleCommit_returnData(r, args, run.filesStaged))
             /\ Log("getStagedDiff", <<>>, r)
    /\ UNCHANGED <<repoVars, registryVars, tool, args, runs,
                   dispatchVars, managerConfig>>

\* The server as index.ts wires it: the commit tool returns data, the
\* validate_and_commit tool validates and commits.
NextData ==
    \/ BeginCommit
    \/ BeginValidateAndCommit
    \/ BeginUnknownTool
    \/ CheckIsRepo
    \/ HasStagedChanges
    \/ GetUnstagedFiles
    \/ StageFiles
    \/ GetStagedDiffData
    \/ Validate
    \/ PrepareCommitMessage
    \/ CommitWithMessage
    \/ Register
    \/ LoadConfig

SpecData == Init /\ [][NextData]_vars

\* ================================================================ configuration and resources

\* A call of ConfigManager.updateConfig: this.config is assigned only when
\* parse returned.
UpdateConfig ==
    /\ pc = "config" /\ Len(calls) < MaxCalls
    /\ \E updates \in ConfigUpdates :
         LET r == updateConfig(managerConfig, updates)
         IN /\ managerConfig' = IF r.threw THEN managerConfig ELSE r.config
            /\ Log("updateConfig", updates, IF r.threw THEN "threw" ELSE "ok")
    /\ UNCHANGED <<repoVars, registryVars, pc, tool, args, run, outcome, runs, dispatchVars>>

\* A ListResources request.
ListResources ==
    /\ pc = "config" /\ Len(calls) < MaxCalls
    /\ Log("listResources", <<>>, ListedResources)
    /\ UNCHANGED <<repoVars, registryVars, pc, tool, args, run, outcome, runs, dispatchVars,
                   managerConfig>>

\* A ReadResource request.
ReadResource ==
    /\ pc = "config" /\ Len(calls) < MaxCalls
    /\ \E uri \in RequestedUris : Log("readResource", uri, readResource(uri, managerConfig))
    /\ UNCHANGED <<repoVars, registryVars, pc, tool, args, run, outcome, runs, dispatchVars,
                   managerConfig>>

InitConfig ==
    /\ isRepo = TRUE
    /\ staged = {}
    /\ unstaged = {}
    /\ editMsg = <<>>
    /\ commits = <<>>
    /\ adapters = <<>>
    /\ config = [a \in Instances |-> "null"]
    /\ pc = "config"
    /\ tool = "commit"
    /\ args = NoArgs
    /\ run = InitRun
    /\ calls = <<>>
    /\ outcome = NoOutcome
    /\ runs = 0
    /\ prev = NoPrev
    /\ suspended = <<>>
    /\ managerConfig = DefaultConfig

NextConfig ==
    \/ UpdateConfig
    \/ ListResources
    \/ ReadResource

SpecConfig == InitConfig /\ [][NextConfig]_vars

\* ================================================================ properties

\* Positions of the run's calls of op, and how many there are.
CallsOf(op) == {i \in 1..Len(calls) : calls[i].op = op}
Count(op) == Cardinality(CallsOf(op))

\* The validator was invoked in this run and returned valid / invalid.
Accepted == \E i \in CallsOf("validate") : calls[i].res = "valid"
Rejected == \E i \in CallsOf("validate") : calls[i].res = "invalid"

\* The message the validator was invoked on.
ValidatedMessage == calls[CHOOSE i \in CallsOf("validate") : TRUE].arg

IsPayload == outcome.kind = "payload"
IsError == outcome.kind = "error"
IsSuccess == IsPayload /\ outcome.payload.success
IsConfirmation ==
    IsPayload /\ "needs_confirmation" \in DOMAIN outcome.payload
              /\ outcome.payload.needs_confirmation

\* The repository check of the run came back true / false.
RepoChecked == Len(calls) >= 1 /\ calls[1].op = "checkIsRepo" /\ calls[1].res
NotARepo == Len(calls) >= 1 /\ calls[1].op = "checkIsRepo" /\ ~calls[1].res

\* ---------------------------------------------------------------- C1
\* C1: a message is persisted (prepareCommitMessage) or committed
\* (commitWithMessage) only if the validator was invoked earlier in the same run
\* on exactly that message and returned valid, whatever the registry holds.
C1_PersistOnlyValidated ==
    \A i \in 1..Len(calls) :
        calls[i].op \in {"prepareCommitMessage", "commitWithMessage"} =>
            \E j \in 1..(i - 1) :
                /\ calls[j].op = "validate"
                /\ calls[j].arg = calls[i].arg
                /\ calls[j].res = "valid"

\* ---------------------------------------------------------------- C2
\* C2 as stated: after an acceptance the run persists exactly once, and commits
\* (at most once) if and only if auto_commit is true.
C2_CommitIffAutoCommit ==
    (pc = "done" /\ Accepted) =>
        /\ Count("prepareCommitMessage") = 1
        /\ \A i \in CallsOf("prepareCommitMessage") : calls[i].arg = ValidatedMessage
        /\ Count("commitWithMessage") <= 1
        /\ (Count("commitWithMessage") = 1) <=> args.auto_commit

\* C2 amended: after an acceptance the run calls prepareCommitMessage exactly
\* once with the accepted message; commitWithMessage is called if and only if
\* auto_commit is true and prepareCommitMessage did not fail, and then exactly
\* once, after it, with the same message.
C2_PersistOnceCommitIfPrepared ==
    /\ Count("prepareCommitMessage") <= 1
    /\ Count("commitWithMessage") <= 1
    /\ (pc = "done" /\ Accepted) =>
         /\ Count("prepareCommitMessage") = 1
         /\ \A i \in CallsOf("prepareCommitMessage") :
              /\ calls[i].arg = ValidatedMessage
              /\ \A j \in CallsOf("validate") : j < i
              /\ (Count("commitWithMessage") = 1) <=> (args.auto_commit /\ calls[i].res)
              /\ \A k \in CallsOf("commitWithMessage") :
                   k > i /\ calls[k].arg = ValidatedMessage

C2_Witness ==
    /\ pc = "done" /\ Accepted /\ args.auto_commit
    /\ tool = "validate_and_commit"
    /\ Count("commitWithMessage") = 1

\* ---------------------------------------------------------------- C3
\* C3: a rejection ends the run with a returned payload, and the run calls
\* neither prepareCommitMessage nor commitWithMessage.
C3_RejectionReturnsPayload ==
    Rejected =>
        /\ pc = "done"
        /\ IsPayload
        /\ Count("prepareCommitMessage") = 0
        /\ Count("commitWithMessage") = 0

C3_Witness == Rejected /\ tool = "commit" /\ args.auto_commit /\ pc = "done"

C5_ConfirmationWhenNotAutoStage ==
    (/\ pc = "done" /\ tool = "commit" /\ run.parsed /\ RepoChecked
     /\ ~args.auto_stage
     /\ run.staged0 = {} /\ run.unstaged0 # {}) =>
        /\ IsConfirmation
        /\ outcome.payload.unstaged_files = FileList(run.unstaged0)
        /\ Count("stageFiles") = 0
        /\ Count("prepareCommitMessage") = 0
        /\ Count("commitWithMessage") = 0

\* ---------------------------------------------------------------- C6
\* C6: no run both calls stageFiles and returns a needs_confirmation payload.
C6_StageXorConfirm == ~(Count("stageFiles") > 0 /\ IsConfirmation)

C6_Witness ==
    /\ pc = "done" /\ tool = "commit"
    /\ Count("stageFiles") = 1 /\ IsPayload

\* ---------------------------------------------------------------- C7
\* C7: with auto_stage = true the list getUnstagedFiles returned is passed
\* unchanged to stageFiles in exactly one call (none when the list is empty),
\* whether or not something was staged already, and files_staged of the success
\* payload is the length of that list.
C7_StageExactlyEnumerated ==
    /\ Count("stageFiles") <= 1
    /\ (pc = "done" /\ tool = "commit" /\ args.auto_stage) =>
         \A i \in CallsOf("getUnstagedFiles") :
            /\ calls[i].res # <<>> =>
                 /\ Count("stageFiles") = 1
                 /\ \A j \in CallsOf("stageFiles") : j > i /\ calls[j].arg = calls[i].res
            /\ calls[i].res = <<>> => Count("stageFiles") = 0
            /\ IsSuccess => outcome.payload.files_staged = Len(calls[i].res)

C7_Witness ==
    /\ pc = "done" /\ tool = "commit" /\ args.auto_stage
    /\ run.staged0 # {} /\ IsSuccess
    /\ outcome.payload.files_staged = 2

\* ---------------------------------------------------------------- C8
\* C8: when checkIsRepo returns false the run ends at once with the 'not a
\* repository' error and performs no other operation, in both entry points.
C8_NotARepoStopsRun ==
    /\ Len(calls) >= 1 => calls[1].op = "checkIsRepo"
    /\ NotARepo =>
         /\ pc = "done"
         /\ Len(calls) = 1
         /\ IsError
         /\ outcome.error = McpError("InvalidParams", <<"Not in a git repository">>)

C8_Witness == NotARepo /\ tool = "validate_and_commit" /\ ~isRepo

\* ---------------------------------------------------------------- C9
\* C9: handleCommit on a repository with nothing staged and nothing unstaged
\* fails with 'nothing to commit' for either auto_stage, without staging, diff
\* retrieval or generation.
NothingToCommit == McpError("InvalidParams", <<"No staged or unstaged changes found">>)

C9_NothingToCommit ==
    (/\ pc = "done" /\ tool = "commit" /\ run.parsed /\ RepoChecked
     /\ run.staged0 = {} /\ run.unstaged0 = {}) =>
        /\ IsError
        /\ outcome.error = NothingToCommit
        /\ Count("stageFiles") = 0
        /\ Count("getStagedDiff") = 0
        /\ Count("request") = 0

C9_Witness ==
    /\ pc = "done" /\ tool = "commit" /\ run.parsed /\ RepoChecked
    /\ run.staged0 = {} /\ run.unstaged0 = {}
    /\ ~args.auto_stage

\* ---------------------------------------------------------------- C10
\* getStagedDiff found the staged diff empty.
EmptyDiff ==
    \E i \in CallsOf("getStagedDiff") :
        /\ calls[i].res.threw
        /\ calls[i].res.error = <<"Failed to get staged diff: ", "No staged changes found">>

\* C10 as stated: an empty staged diff ends the run with the same error kind as
\* 'nothing to commit', and no generation request is issued.
C10_EmptyDiffIsNothingToCommit ==
    EmptyDiff =>
        /\ IsError
        /\ outcome.error.code = NothingToCommit.code
        /\ Count("request") = 0

\* C10 amended: an empty staged diff ends the run with the generic internal
\* 'operation failed' error wrapping getStagedDiff's message, which is not the
\* error kind of 'nothing to commit'; no generation request is issued.
C10_EmptyDiffIsOperationFailed ==
    EmptyDiff =>
        /\ pc = "done"
        /\ IsError
        /\ outcome.error =
             McpError("InternalError",
                      <<CommitPrefix, "Failed to get staged diff: ", "No staged changes found">>)
        /\ outcome.error.code # NothingToCommit.code
        /\ Count("request") = 0

C10_Witness == EmptyDiff /\ Count("stageFiles") = 1 /\ pc = "done"

\* ---------------------------------------------------------------- C11
\* The generation request of the run settled with a failure: a transport
\* failure, a malformed reply, or a reply whose text is empty.
GenerationFailed ==
    \E i \in CallsOf("request") : calls[i].res.kind # "reply" \/ calls[i].res.text = <<>>

\* The message the failing cause carries.
CauseOf(reply) ==
    IF reply.kind # "reply" THEN reply.kind ELSE "Invalid response from sampling request"

\* What the caller would receive had the request settled with reply.
OutcomeOfReply(reply) ==
    CallTool(handleCommit_afterGenerate(
                generateCommitMessageWithSampling(AGENT_PRESETS["default"], reply)).outcome)

\* C11 as stated: a failed generation request ends the run with one and the
\* same condition whatever the cause (transport, malformed reply, empty text);
\* the request is issued once and no validation, persistence or commit follows.
C11_GenerationFailureIndistinguishable ==
    GenerationFailed =>
        /\ pc = "done" /\ IsError
        /\ \A r \in Replies :
              (r.kind # "reply" \/ r.text = <<>>) => outcome = OutcomeOfReply(r)
        /\ Count("request") = 1
        /\ calls[Len(calls)].op = "request"

\* C11 amended: a failed generation request ends the run with an InternalError
\* whose message is 'Commit operation failed: Failed to generate commit message
\* using sampling: ' followed by the message of the cause, so the three causes
\* share the error code and the prefix but not the text; the request is issued
\* exactly once and is the last operation of the run.
C11_GenerationFailureSharesPrefix ==
    /\ Count("request") <= 1
    /\ GenerationFailed =>
         /\ pc = "done" /\ IsError
         /\ outcome.error.code = "InternalError"
         /\ \A i \in CallsOf("request") :
              outcome.error.message = <<CommitPrefix, SamplingPrefix, CauseOf(calls[i].res)>>
         /\ Count("request") = 1
         /\ calls[Len(calls)].op = "request"
         /\ Count("validate") = 0
         /\ Count("prepareCommitMessage") = 0
         /\ Count("commitWithMessage") = 0

C11_Witness ==
    /\ pc = "done" /\ GenerationFailed
    /\ \E i \in CallsOf("request") : calls[i].res.kind = "reply"
    /\ get("commitlint") # "undefined"

\* ---------------------------------------------------------------- C12
\* commitWithMessage of the run reported success = false.
CommitFailed == \E i \in CallsOf("commitWithMessage") : ~calls[i].res.success

\* C12: when commitWithMessage reports failure (auto_commit is true) the run
\* ends with an error, not a payload; the pending-commit-message slot holds the
\* message of the run, and the index is as the run left it after staging.
C12_CommitFailureRaises ==
    CommitFailed =>
        /\ pc = "done"
        /\ args.auto_commit
        /\ IsError
        /\ outcome.error = McpError("InternalError", <<"Failed to commit: ", "git">>)
        /\ editMsg = Candidate
        /\ Accepted => editMsg = ValidatedMessage
        /\ tool = "commit" =>
             /\ staged = Range(run.stagedDiff)
             /\ staged # {}
             /\ Count("stageFiles") = 1 => unstaged \cap Range(run.unstagedFiles) = {}
        /\ tool = "validate_and_commit" => staged = run.staged0

C12_Witness ==
    /\ CommitFailed /\ tool = "commit" /\ Accepted
    /\ Count("stageFiles") = 1 /\ run.filesStaged = 2

\* ---------------------------------------------------------------- C13
\* commitWithMessage of the run was called and reported success.
Committed == \E i \in CallsOf("commitWithMessage") : calls[i].res.success

\* C13: in every success payload commit_message is the message the run
\* validated, auto_committed is true exactly when commitWithMessage was called
\* and succeeded, commit_sha is the identifier that commit returned, and it is
\* absent when auto_committed is false, the message being persisted all the same.
C13_SuccessPayload ==
    IsSuccess =>
        /\ pc = "done"
        /\ outcome.payload.commit_message = Candidate
        /\ Accepted => outcome.payload.commit_message = ValidatedMessage
        /\ outcome.payload.auto_committed <=> Committed
        /\ outcome.payload.auto_committed =>
             /\ outcome.payload.commit_sha # <<>>
             /\ \A i \in CallsOf("commitWithMessage") :
                  outcome.payload.commit_sha = calls[i].res.commitSha
        /\ ~outcome.payload.auto_committed =>
             /\ outcome.payload.commit_sha = <<>>
             /\ Count("commitWithMessage") = 0
             /\ editMsg = Candidate
             /\ \E i \in CallsOf("prepareCommitMessage") : calls[i].res

C13_Witness ==
    /\ IsSuccess /\ tool = "commit" /\ Accepted
    /\ ~outcome.payload.auto_committed

\* ---------------------------------------------------------------- C14
\* The place of an operation in the required order.
OpRank(op) ==
    CASE op = "checkIsRepo" -> 1
      [] op = "hasStagedChanges" -> 2
      [] op = "getUnstagedFiles" -> 3
      [] op = "stageFiles" -> 4
      [] op = "getStagedDiff" -> 5
      [] op = "request" -> 6
      [] op = "validate" -> 7
      [] op = "prepareCommitMessage" -> 8
      [] op = "commitWithMessage" -> 9
      [] OTHER -> 0

\* C14: the operations of a handleCommit run occur in the order checkIsRepo,
\* hasStagedChanges, getUnstagedFiles, stageFiles, getStagedDiff, generation
\* request, validator call, prepareCommitMessage, commitWithMessage; none is
\* repeated and none comes before an earlier one.
C14_OperationsInOrder ==
    tool = "commit" =>
        \A i, j \in 1..Len(calls) :
            i < j => (OpRank(calls[i].op) > 0 /\ OpRank(calls[i].op) < OpRank(calls[j].op))

C14_Witness ==
    /\ tool = "commit" /\ pc = "done"
    /\ Len(calls) = 9
    /\ calls[9].op = "commitWithMessage"

\* ---------------------------------------------------------------- C15
\* The failure raised inside the try block of handleCommit by the step the run
\* stopped at (steps 1 to 6).
RaisedBy(last) ==
    CASE last.op = "checkIsRepo" -> McpError("InvalidParams", <<"Not in a git repository">>)
      [] last.op \in {"hasStagedChanges", "getUnstagedFiles"} -> NothingToCommit
      [] last.op = "stageFiles" -> PlainError(<<"Failed to stage files: ", "git">>)
      [] last.op = "getStagedDiff" ->
            IF last.res.threw
            THEN PlainError(last.res.error)
            ELSE PlainError(<<SamplingPrefix, "Cannot read properties of undefined">>)
      [] OTHER -> PlainError(<<SamplingPrefix, CauseOf(last.res)>>)

\* The run of handleCommit ended with an error raised in steps 1 to 6.
FailedBeforeValidation ==
    /\ tool = "commit" /\ pc = "done" /\ run.parsed /\ IsError
    /\ Len(calls) >= 1
    /\ OpRank(calls[Len(calls)].op) <= 6

\* C15: a failure raised in steps 1 to 6 of handleCommit reaches the caller
\* through the handler's catch clause: an McpError with its code and message
\* unchanged, any other failure as InternalError 'Commit operation failed: '
\* followed by the failure's message.
C15_TopLevelHandler ==
    FailedBeforeValidation =>
        LET raised == RaisedBy(calls[Len(calls)])
        IN  /\ raised.mcp => outcome.error = raised
            /\ ~raised.mcp =>
                 outcome.error = McpError("InternalError", <<CommitPrefix>> \o raised.message)

C15_Witness ==
    /\ FailedBeforeValidation
    /\ calls[Len(calls)].op = "stageFiles"

\* ---------------------------------------------------------------- C16
\* C16: every tool call ends either with a returned payload that has a boolean
\* success field or with an McpError; a schema failure is reported as
\* InvalidParams and an unknown tool name as MethodNotFound.
C16_StructuredAnswer ==
    /\ pc = "done" =>
         \/ /\ IsPayload
            /\ "success" \in DOMAIN outcome.payload
            /\ outcome.payload.success \in BOOLEAN
         \/ /\ IsError
            /\ outcome.error.mcp
            /\ outcome.error.code \in
                 {"InvalidParams", "InternalError", "MethodNotFound"}
    /\ pc # "done" => outcome = NoOutcome
    /\ (pc = "done" /\ tool \in {"commit", "validate_and_commit"} /\ ~run.parsed) =>
         IsError /\ outcome.error.code = "InvalidParams"
    /\ (pc = "done" /\ tool \in OtherTools) =>
         IsError /\ outcome.error.code = "MethodNotFound"

C16_Witness == pc = "done" /\ tool = "validate_and_commit" /\ ~run.parsed /\ runs = 2

\* ---------------------------------------------------------------- C17
\* C17: a commit request the schema rejects ends at once with an
\* invalid-parameters error: no repository operation, generation request or
\* validator call is made and the repository is untouched.
C17_InvalidRequestRejected ==
    (tool = "commit" /\ runs > 0 /\ ~run.parsed) =>
        /\ pc = "done"
        /\ calls = <<>>
        /\ IsError
        /\ outcome.error = McpError("InvalidParams", <<"Invalid parameters: ", "ZodError">>)
        /\ staged = run.staged0 /\ unstaged = run.unstaged0

C17_Witness ==
    /\ tool = "commit" /\ runs > 0 /\ ~run.parsed /\ ~run.unknownStyle
    /\ staged # {} /\ isRepo

\* ---------------------------------------------------------------- C18
\* The request with style, auto_commit and auto_stage spelled out at their
\* default values.
ExplicitDefaults(request) ==
    [request |-> request, style |-> "default", auto_commit |-> "true", auto_stage |-> "true"]

\* C18: a commit request that omits style, auto_commit and auto_stage is parsed
\* to the arguments of the same request with style = 'default', auto_commit =
\* true and auto_stage = true, and the run goes the way those arguments demand:
\* unstaged files are looked up, the default preset is used, and a successful
\* run commits.
C18_OmittedEqualsExplicit ==
    (tool = "commit" /\ runs > 0 /\ run.omitted) =>
        /\ run.parsed = CommitSchemaParse(ExplicitDefaults(args.request)).ok
        /\ args = CommitSchemaParse(ExplicitDefaults(args.request)).value
        /\ args.style = "default" /\ args.auto_commit /\ args.auto_stage
        /\ Len(calls) >= 3 => calls[3].op = "getUnstagedFiles"
        /\ \A i \in CallsOf("request") : calls[i].arg[1] = "default"
        /\ (pc = "done" /\ IsSuccess) => (outcome.payload.auto_committed /\ Committed)
        /\ ~IsConfirmation

C18_Witness ==
    /\ tool = "commit" /\ run.omitted /\ run.parsed
    /\ pc = "done" /\ IsSuccess /\ run.filesStaged = 1

C20_ValidateAndCommitSkipsDiff ==
    tool = "validate_and_commit" =>
        /\ \A i \in 1..Len(calls) :
              calls[i].op \in
                 {"checkIsRepo", "validate", "prepareCommitMessage", "commitWithMessage"}
        /\ pc \in {"checkIsRepo", "validate", "prepareCommitMessage", "commitWithMessage",
                   "done"}
        /\ unstaged = run.unstaged0

C20_Witness ==
    /\ tool = "validate_and_commit" /\ pc = "done" /\ IsSuccess
    /\ Len(calls) = 4 /\ run.unstaged0 # {} /\ run.staged0 # {}

\* ---------------------------------------------------------------- C21
\* The validator threw in this run.
ValidatorThrew == \E i \in CallsOf("validate") : calls[i].res = "threw"

\* C21: a run of handleValidateAndCommit that repeats the run before it (the
\* same message, auto_commit = false both times) gets the same validation
\* outcome: the same valid flag, violations and warnings, or the same failure
\* of the validator; and up to the persistence step such a run leaves the index
\* and the working tree as it found them.
C21_RepeatedValidationSame ==
    /\ (/\ tool = "validate_and_commit" /\ prev.set
        /\ pc \in {"prepareCommitMessage", "done"} /\ RepoChecked) =>
          /\ args.message = prev.message
          /\ ~args.auto_commit
          /\ run.validation = prev.validation
          /\ ValidatorThrew = prev.threw
    /\ (tool = "validate_and_commit" /\ Count("commitWithMessage") = 0) =>
          /\ staged = run.staged0
          /\ unstaged = run.unstaged0

C21_Witness ==
    /\ tool = "validate_and_commit" /\ prev.set /\ pc = "done"
    /\ Rejected /\ prev.validation.errors # <<>>

\* ---------------------------------------------------------------- C22
\* The message both handlers' catch clauses put before a wrapped failure.
PrefixOf(t) == IF t = "commit" THEN CommitPrefix ELSE ValidatePrefix

\* C22: the validator called on an adapter whose configuration is not loaded
\* throws 'Configuration not loaded' and yields no validation result; the run
\* ends with an error wrapping that message, and calls neither
\* prepareCommitMessage nor commitWithMessage.
C22_ValidateBeforeLoad ==
    /\ \A i \in CallsOf("validate") :
          (calls[i].res = "threw") <=> (config[get("commitlint")] = "null")
    /\ ValidatorThrew =>
          /\ pc = "done"
          /\ IsError
          /\ outcome.error =
               McpError("InternalError",
                        <<PrefixOf(tool), "Configuration not loaded. Call loadConfig() first.">>)
          /\ run.validation = InitRun.validation
          /\ Count("prepareCommitMessage") = 0
          /\ Count("commitWithMessage") = 0

C22_Witness == ValidatorThrew /\ tool = "commit" /\ args.auto_commit /\ editMsg = <<>>

\* ---------------------------------------------------------------- C23
\* The transport is connected: start() has returned and requests are received.
Serving == pc \notin {"new", "start", "connect", "exited"}

\* C23: the server receives tool calls only after the registered validator's
\* loadConfig has completed; when loadConfig or connect fails the process exits,
\* stays exited, and has served no tool call.
C23_StartOrder ==
    /\ [](/\ (Serving \/ pc = "connect" \/ runs > 0) =>
                /\ get("commitlint") = "c1"
                /\ config["c1"] = "loaded"
          /\ (pc \notin {"new", "start"} /\ config["c1"] = "null") => pc = "exited"
          /\ pc = "exited" => (runs = 0 /\ calls = <<>> /\ outcome = NoOutcome))
    /\ [][pc = "exited" => pc' = "exited"]_vars

C23_Witness ==
    /\ pc = "done" /\ tool = "commit" /\ Accepted
    /\ get("commitlint") = "c1" /\ config["c1"] = "loaded"

\* ---------------------------------------------------------------- C24
Names == {AdapterName(a) : a \in Adapters}

\* The positions of the register calls made with an adapter of this name.
RegisteredAt(name) == {i \in CallsOf("register") : AdapterName(calls[i].arg) = name}

LastRegistered(name) ==
    IF RegisteredAt(name) = {} THEN "undefined"
    ELSE calls[CHOOSE i \in RegisteredAt(name) : \A j \in RegisteredAt(name) : j <= i].arg

\* C24: after any sequence of register calls, get(name) is the adapter most
\* recently registered under name (undefined if none was), list() holds each
\* registered name exactly once, and a register call under a name already in use
\* leaves list() as it was.
C24_RegistryLastWins ==
    /\ [](/\ \A name \in Names :
                /\ get(name) = LastRegistered(name)
                /\ Cardinality({i \in 1..Len(list) : list[i] = name})
                     = IF RegisteredAt(name) = {} THEN 0 ELSE 1
          /\ get("other") = "undefined"
          /\ \A i \in 1..Len(list) : list[i] \in Names)
    /\ [][\A a \in Adapters :
             (/\ Len(calls') = Len(calls) + 1
              /\ calls'[Len(calls')].arg = a
              /\ HasName(AdapterName(a))) => list' = list]_vars

C24_Witness ==
    /\ pc = "registry"
    /\ Count("register") = 3
    /\ calls[1].arg = "c1" /\ calls[2].arg = "m1" /\ calls[3].arg = "c2"
    /\ get("commitlint") = "c2"
    /\ list = <<"commitlint", "mock">>

\* ---------------------------------------------------------------- C25
\* Runs that have begun and not yet produced their outcome.
RunsInProgress == Len(suspended) + (IF pc \in AwaitPoints THEN 1 ELSE 0)

\* C25: at most one run is in progress at any time; no second tool call
\* executes a repository operation while an earlier run is suspended at an await.
C25_OneRunAtATime ==
    /\ RunsInProgress <= 1
    /\ suspended # <<>> => calls = <<>>

\* ---------------------------------------------------------------- C26
\* C26: when every awaited operation settles, every run of handleCommit reaches
\* a terminal outcome. A run waiting for the sampling reply has persisted and
\* committed nothing and has no outcome, and it leaves that wait only by the
\* reply (or by failing before the request is sent): no timeout ends it.
C26_TerminatesUnlessPeerSilent ==
    /\ (tool = "commit" /\ pc \in AwaitPoints) ~> (pc = "done" /\ outcome # NoOutcome)
    /\ []((tool = "commit" /\ pc = "request") =>
             /\ outcome = NoOutcome
             /\ Count("prepareCommitMessage") = 0
             /\ Count("commitWithMessage") = 0)
    /\ [][(tool = "commit" /\ pc = "request" /\ pc' # "request") =>
             \/ /\ calls' = Append(calls, calls'[Len(calls')])
                /\ calls'[Len(calls')].op = "request"
             \/ /\ calls' = calls
                /\ pc' = "done"
                /\ outcome'.kind = "error"]_vars

C26_Witness ==
    /\ tool = "commit" /\ pc = "done"
    /\ Count("request") = 1
    /\ Count("commitWithMessage") = 1
    /\ IsSuccess

\* ---------------------------------------------------------------- C27
\* The calls of a run that are handed the message.
MessageCalls ==
    CallsOf("validate") \cup CallsOf("prepareCommitMessage") \cup CallsOf("commitWithMessage")

\* C27: within one run the validator, prepareCommitMessage and commitWithMessage
\* are passed the same string, which for validate_and_commit is the request's
\* message unaltered, and the success payload reports that string as commit_message.
C27_SameMessageThroughout ==
    /\ \A i, j \in MessageCalls : calls[i].arg = calls[j].arg
    /\ \A i \in MessageCalls :
          /\ tool = "validate_and_commit" => calls[i].arg = args.message
          /\ (pc = "done" /\ IsSuccess) => outcome.payload.commit_message = calls[i].arg

C27_Witness ==
    /\ pc = "done" /\ tool = "validate_and_commit" /\ IsSuccess
    /\ Accepted
    /\ Count("prepareCommitMessage") = 1
    /\ Count("commitWithMessage") = 1
    /\ args.message = <<"feat", ":", " ", "x", "\n", "body">>

\* ---------------------------------------------------------------- C28
\* The sampling request of the run was answered with this reply.
RepliedWith(i) == calls[i].res

\* C28: the candidate handleCommit takes to validation is the reply's text
\* trimmed and is never empty; a reply whose text is empty or only whitespace
\* ends the run with the generation-failed error before validation.
C28_CandidateTrimmedNonEmpty ==
    tool = "commit" =>
        \A i \in CallsOf("request") :
            /\ (RepliedWith(i).kind = "reply" /\ Trim(RepliedWith(i).text) = <<>>) =>
                  /\ pc = "done"
                  /\ GenerationFailed
                  /\ Count("validate") = 0
            /\ pc \in {"validate", "prepareCommitMessage", "commitWithMessage"} =>
                  /\ run.commitMessage = Trim(RepliedWith(i).text)
                  /\ run.commitMessage # <<>>
            /\ \A j \in CallsOf("validate") :
                  /\ calls[j].arg = Trim(RepliedWith(i).text)
                  /\ calls[j].arg # <<>>

\* ---------------------------------------------------------------- C29
\* prepareCommitMessage of this run threw.
PrepareFailed == \E i \in CallsOf("prepareCommitMessage") : ~calls[i].res

\* C29: when prepareCommitMessage fails in handleCommit, after the validator
\* accepted the message, the run ends with an InternalError carrying the
\* operation's failure, and commitWithMessage is not called whatever auto_commit is.
C29_PrepareFailureStopsRun ==
    (tool = "commit" /\ PrepareFailed) =>
        /\ pc = "done"
        /\ IsError
        /\ outcome.error =
             McpError("InternalError",
                      <<CommitPrefix, "Failed to prepare commit message: ", "fs">>)
        /\ Count("commitWithMessage") = 0

C29_Witness ==
    /\ tool = "commit" /\ pc = "done"
    /\ Accepted
    /\ PrepareFailed
    /\ args.auto_commit

\* ---------------------------------------------------------------- C30
\* The step in which the run's getStagedDiff call settles.
StagedDiffSettles ==
    /\ pc = "getStagedDiff"
    /\ pc' \in {"request", "done"}
    /\ calls' = Append(calls, calls'[Len(calls')])
    /\ calls'[Len(calls')].op = "getStagedDiff"

\* C30: getStagedDiff either throws, as it does outside a repository and on an
\* empty staged diff, or returns the staged diff as git printed it, which is
\* then not empty; every generation request handleCommit issues carries the
\* diff so returned, never an empty one.
C30_StagedDiffNonEmpty ==
    /\ [][StagedDiffSettles =>
            LET r == calls'[Len(calls')].res
            IN  /\ (~isRepo \/ DiffText = <<>>) => r.threw
                /\ ~r.threw => (r.content = DiffText /\ r.content # <<>>)
                /\ r.threw => (pc' = "done" /\ outcome'.kind = "error")
                /\ ~r.threw => (pc' = "request" /\ run'.stagedDiff = r.content)]_vars
    /\ [](\A j \in CallsOf("request") :
             /\ calls[j].arg[2] # <<>>
             /\ calls[j].arg[2] = run.stagedDiff
             /\ \E i \in CallsOf("getStagedDiff") :
                   i < j /\ ~calls[i].res.threw /\ calls[i].res.content = calls[j].arg[2])

C30_Witness ==
    /\ tool = "commit" /\ pc = "done"
    /\ \E i \in CallsOf("getStagedDiff") :
          /\ calls[i].res.threw
          /\ calls[i].res.error = <<"Failed to get staged diff: ", "No staged changes found">>

\* ---------------------------------------------------------------- C31
\* The run staged files of its own accord.
AutoStaged ==
    \E i \in CallsOf("stageFiles") : calls[i].res /\ calls[i].arg # <<>>

\* C31: up to and including validation the only step of a handleCommit run that
\* changes the repository is stageFiles, and no later step but a successful
\* commit changes the index; a run that auto-staged and ended in generation
\* failure, rejection or commit failure has nothing of what it staged back in
\* the working tree, and the next run starts from that index.
C31_NoRollbackOfStaging ==
    /\ [][(/\ tool = "commit"
           /\ pc \in {"checkIsRepo", "hasStagedChanges", "getUnstagedFiles",
                      "getStagedDiff", "request", "validate"}) =>
              UNCHANGED repoVars]_vars
    /\ [][(/\ tool = "commit"
           /\ pc \in {"prepareCommitMessage", "commitWithMessage"}
           /\ Len(commits') = Len(commits)) =>
              UNCHANGED <<staged, unstaged>>]_vars
    /\ [][runs' = runs + 1 =>
              /\ UNCHANGED repoVars
              /\ tool' = "commit" =>
                    (run'.staged0 = staged /\ run'.unstaged0 = unstaged)]_vars
    /\ []((/\ tool = "commit" /\ pc = "done" /\ AutoStaged
           /\ (GenerationFailed \/ Rejected \/ CommitFailed)) =>
              /\ Range(run.unstagedFiles) \cap unstaged = {}
              /\ Range(run.unstagedFiles) \ run.staged0 \subseteq staged
              /\ run.staged0 \ Range(run.unstagedFiles) \subseteq staged)

C31_Witness ==
    /\ tool = "commit" /\ pc = "done" /\ AutoStaged /\ Rejected
    /\ run.staged0 = {} /\ run.unstaged0 = {"a.ts"}
    /\ staged = {"a.ts"} /\ unstaged = {}

\* ---------------------------------------------------------------- C32
\* C32: also when two runs interleave at their awaits, the staged files at the
\* moment a handleCommit run commits are the ones its diff was retrieved from,
\* and what it committed is that set.
C32_CommitMatchesDiff ==
    /\ (tool = "commit" /\ pc = "commitWithMessage") => DiffText = run.stagedDiff
    /\ (tool = "commit" /\ pc = "done" /\ Committed) =>
          FileList(commits[Len(commits)].files) = run.stagedDiff

\* ---------------------------------------------------------------- C33
\* The same operation, handed the same argument, came back with the same response.
SameCall(c, d) == c.op = d.op /\ c.arg = d.arg /\ c.res = d.res

\* The responses this run received so far are those the earlier run received.
SameResponsesSoFar ==
    /\ Len(calls) <= Len(prev.calls)
    /\ \A i \in 1..Len(calls) : SameCall(calls[i], prev.calls[i])

\* The current run repeats the request of the run before it.
IsRepeat == prev.set /\ "calls" \in DOMAIN prev

\* C33: a run that is given the arguments of an earlier run and receives the
\* same responses ends where that run ended and returns the same outcome; it
\* starts from nothing the earlier run left in the handler, and asks the
\* repository first.
C33_OutcomeFromArgsAndResponses ==
    IsRepeat =>
        /\ tool = prev.tool /\ args = prev.args
        /\ pc = "checkIsRepo" =>
              (calls = <<>> /\ run = [InitRun EXCEPT !.parsed = TRUE,
                                                     !.staged0 = staged,
                                                     !.unstaged0 = unstaged,
                                                     !.omitted = run.omitted,
                                                     !.unknownStyle = run.unknownStyle])
        /\ calls # <<>> => calls[1].op = "checkIsRepo"
        /\ (pc = "done" /\ SameResponsesSoFar) =>
              /\ Len(calls) = Len(prev.calls)
              /\ outcome = prev.outcome

C33_Witness ==
    /\ IsRepeat /\ pc = "done" /\ SameResponsesSoFar
    /\ tool = "validate_and_commit"
    /\ Accepted /\ IsSuccess
    /\ Count("prepareCommitMessage") = 1

\* ---------------------------------------------------------------- C34
\* Sequences of file names.
FileLists == {FileList(S) : S \in SUBSET Files}

\* C34: checkIsRepo, hasStagedChanges, getUnstagedFiles and getStagedFiles
\* always return a value, which is false or the empty list when git fails;
\* commitWithMessage always returns a result: success without a commit under
\* dryRun, and otherwise success exactly when git commits, a failure carrying
\* an error text that begins with 'Failed to commit'.
C34_GitOpsNeverRaise ==
    /\ [](\A i \in 1..Len(calls) :
             LET c == calls[i]
             IN  /\ c.op \in {"checkIsRepo", "hasStagedChanges"} =>
                       /\ c.res \in BOOLEAN
                       /\ ~c.git => c.res = FALSE
                 /\ c.op \in {"getUnstagedFiles", "getStagedFiles"} =>
                       /\ c.res \in FileLists
                       /\ ~c.git => c.res = <<>>
                 /\ c.op = "commitWithMessage" =>
                       /\ c.res.success \in BOOLEAN
                       /\ c.dryRun => (c.res.success /\ c.res.commitSha = <<>>)
                       /\ ~c.dryRun => (c.res.success <=> c.git)
                       /\ ~c.res.success =>
                             (c.res.error # <<>> /\ c.res.error[1] = "Failed to commit: "))
    /\ [][(/\ Len(calls') = Len(calls) + 1
           /\ calls'[Len(calls')].op = "commitWithMessage"
           /\ calls'[Len(calls')].dryRun) => UNCHANGED repoVars]_vars
    /\ [][(/\ Len(calls') = Len(calls) + 1
           /\ calls'[Len(calls')].op = "hasStagedChanges"
           /\ calls'[Len(calls')].git) =>
              calls'[Len(calls')].res = (staged # {})]_vars

C34_Witness ==
    /\ pc = "gitops" /\ Len(calls) = 2
    /\ calls[1].op = "hasStagedChanges" /\ ~calls[1].git /\ staged # {}
    /\ calls[2].op = "commitWithMessage" /\ calls[2].dryRun /\ ~calls[2].git

\* The fields an update names, and whether it names one with a value outside
\* the schema.
NamesPreset(u) == u.agent.present /\ u.agent.preset # "absent"
NamesPrompt(u) == u.agent.present /\ u.agent.custom_prompt # "absent"
NamesConfirm(u) == u.behavior.present /\ u.behavior.require_confirmation # "absent"
NamesInvalid(u) ==
    \/ NamesPreset(u) /\ u.agent.preset = "bogus"
    \/ NamesPrompt(u) /\ u.agent.custom_prompt = "number"
    \/ NamesConfirm(u) /\ u.behavior.require_confirmation = "yes"

\* The call a step has just logged.
JustCalled(op) ==
    /\ Len(calls') = Len(calls) + 1
    /\ calls'[Len(calls')].op = op

\* C35: an updateConfig call that names a value outside the schema throws and
\* leaves the stored configuration as it was; any other call succeeds, gives
\* each field it names the value it carries (the default for undefined) and
\* leaves every field it does not name as the earlier calls left it.
C35_PartialUpdate ==
    [][JustCalled("updateConfig") =>
         LET u == calls'[Len(calls')].arg
             res == calls'[Len(calls')].res
         IN /\ (res = "threw") <=> NamesInvalid(u)
            /\ res = "threw" => managerConfig' = managerConfig
            /\ res = "ok" =>
                 /\ managerConfig'.agent.preset =
                      IF NamesPreset(u)
                      THEN (IF u.agent.preset = "undefined" THEN "default" ELSE u.agent.preset)
                      ELSE managerConfig.agent.preset
                 /\ managerConfig'.agent.custom_prompt =
                      IF NamesPrompt(u) THEN u.agent.custom_prompt
                      ELSE managerConfig.agent.custom_prompt
                 /\ managerConfig'.behavior.require_confirmation =
                      IF NamesConfirm(u) THEN u.behavior.require_confirmation = "true"
                      ELSE managerConfig.behavior.require_confirmation]_vars

\* Two updates: the first set the preset and the prompt, the second named only
\* require_confirmation, and the preset and the prompt are still there.
C35_Witness ==
    /\ Len(calls) = 2
    /\ calls[1].op = "updateConfig" /\ calls[2].op = "updateConfig"
    /\ calls[1].res = "ok" /\ calls[2].res = "ok"
    /\ calls[1].arg.agent.preset = "strict" /\ calls[1].arg.agent.custom_prompt = "json"
    /\ ~calls[2].arg.agent.present /\ calls[2].arg.behavior.require_confirmation = "false"
    /\ managerConfig = [agent |-> [preset |-> "strict", custom_prompt |-> "json"],
                        behavior |-> [require_confirmation |-> FALSE]]

Listed == {ListedResources[i] : i \in 1..Len(ListedResources)}

\* C37: a read of a uri the listing does not return throws an McpError with
\* code InvalidRequest and the message 'Unknown resource: <uri>', and a read of
\* a listed uri returns its contents.
C37_ReadResource ==
    [][JustCalled("readResource") =>
         LET uri == calls'[Len(calls')].arg
             res == calls'[Len(calls')].res
         IN /\ uri \in Listed => res.kind = "payload" /\ res.payload.uri = uri
            /\ uri \notin Listed =>
                 /\ res.kind = "error"
                 /\ res.error.code = "InvalidRequest"
                 /\ res.error.message = <<"Unknown resource: ", uri>>]_vars

\* Every listed uri is read successfully, whatever the stored configuration.
C37_ListedReadable ==
    [][JustCalled("readResource") =>
         (calls'[Len(calls')].arg \in Listed => calls'[Len(calls')].res.kind = "payload")]_vars

\* Operations the data-returning handler has no call of.
GenerationOps == {"request", "validate", "prepareCommitMessage", "commitWithMessage"}

\* C36: a run of the data-returning handleCommit makes no validator,
\* prepareCommitMessage, commitWithMessage or generation call and leaves the
\* history and the pending message alone; when it returns success = true the
\* response carries the staged diff it read (which is the index's), the preset
\* selected from the request's style and the request's auto_commit.
C36_ReturnsData ==
    /\ [](tool = "commit" => \A i \in 1..Len(calls) : calls[i].op \notin GenerationOps)
    /\ [][tool = "commit" /\ tool' = "commit" /\ runs' = runs
            => UNCHANGED <<commits, editMsg>>]_vars
    /\ []((tool = "commit" /\ pc = "done" /\ outcome.kind = "payload" /\ outcome.payload.success)
            => /\ outcome.payload.diff = run.stagedDiff
               /\ outcome.payload.diff = FileList(staged)
               /\ outcome.payload.diff # <<>>
               /\ outcome.payload.selected_preset = selectedPreset(args.style)
               /\ outcome.payload.selected_preset \in Styles
               /\ outcome.payload.auto_commit = args.auto_commit
               /\ calls[Len(calls)].op = "getStagedDiff")

\* A request with auto_commit: false and a style got the diff back, after
\* auto-staging.
C36_Witness ==
    /\ tool = "commit" /\ pc = "done"
    /\ outcome.kind = "payload" /\ outcome.payload.success
    /\ ~outcome.payload.auto_commit
    /\ outcome.payload.selected_preset = "minimal"
    /\ outcome.payload.files_staged > 0
    /\ outcome.payload.diff # <<>>

====
